---- MODULE Spec2Model ----
(***************************************************************************)
(* obsidian2confluence: the synchronisation engine (app/sync.py), the      *)
(* conflict detector (app/conflicts.py), the SQLite state store            *)
(* (app/state.py) and the Confluence client operations the engine uses     *)
(* (app/client.py), as a state machine.                                    *)
(*                                                                         *)
(* Python's None is modelled per type: an optional record or integer is a  *)
(* sequence of length 0 (None) or 1; an optional page id is NoId; an       *)
(* optional datetime is NoTime.  A datetime carries whether it is          *)
(* timezone-aware, because Python refuses to order an aware datetime       *)
(* against a naive one (TypeError).                                        *)
(***************************************************************************)
EXTENDS Integers, Sequences, FiniteSets, TLC

VARIABLES
    disk,           \* the vault on disk: content hash of each note file
    remote,         \* Confluence: sequence of pages, page n has id "n"
    clock,          \* Confluence's clock, stamps version.when
    sendsWhen,      \* whether the server's answers carry version.when
    files,          \* state store, table files:    path -> row
    pages,          \* state store, table pages:    page id -> row
    bindings,       \* state store, table bindings: set of rows
    pc,             \* "idle" | "running" | "done" | "crashed" | "stopped"
    dry_run,        \* the dry_run flag of the current or last run
    notes,          \* the notes scanned by the current or last run
    idx,            \* index of the next note run() hands to _process_note
    cache,          \* PageHierarchyManager._cache
    root_page,      \* PageHierarchyManager._root_page
    dry_counter,    \* PageHierarchyManager._dry_counter
    plan,           \* run(): plan_entries
    conflict_records, \* run(): conflict_records
    summary,        \* run(): SyncSummary
    calls,          \* client calls issued by the last _process_note
    raised,         \* the exception that ended the run, "" if none
    vault,          \* frontmatter and paths of the notes (fixed per behaviour)
    runs,           \* number of runs started
    edits,          \* number of local and remote edits made by the environment
    stable,         \* a real run has completed and nothing changed since
    lastReal,       \* actions of the last completed real run
    prevReal,       \* at the end of a real run: the real run before it
    hc,             \* has_conflict called on its own: arguments and result
    sb,             \* the last call of set_binding or remove_binding made
                    \* on the store directly, and what it raised
    req,            \* ConfluenceClient._request called on its own: the
                    \* attempts made and how the call ended
    fault,          \* the requests the server fails with a 4xx/5xx answer
    rp,             \* resolve_parent called on its own: what each call returned
    wr,             \* the store writes of one note, statement by statement
    up,             \* the last upsert made on the store directly
    lastDry,        \* the last completed dry run: its plan and what it ran on
    prevDry         \* the plan of a dry run that ran on what the current run
                    \* started on

vars == <<disk, remote, clock, sendsWhen, files, pages, bindings, pc, dry_run,
          notes, idx, cache, root_page, dry_counter, plan, conflict_records,
          summary, calls, raised, vault, runs, edits, stable, lastReal,
          prevReal, hc, sb, req, fault, rp, wr, up, lastDry, prevDry>>

(***************************************************************************)
(* Bounds                                                                  *)
(***************************************************************************)
MaxSha == 2         \* hashes has_conflict is called with on its own
MaxRuns == 3        \* runs started in one behaviour
MaxEdits == 2       \* edits by the environment in one behaviour
MaxVersion == 3     \* versions has_conflict is called with on its own
MaxTime == 1        \* timestamps has_conflict is called with on its own
MaxResolves == 3    \* calls of resolve_parent made on one manager directly

(***************************************************************************)
(* Optional values, page ids, datetimes                                    *)
(***************************************************************************)
None == <<>>
Some(x) == <<x>>

NoId == [kind |-> "none", n |-> 0, slug |-> ""]
RealId(n) == [kind |-> "page", n |-> n, slug |-> ""]

NoTime == [some |-> FALSE, aware |-> FALSE, t |-> 0]
Aware(t) == [some |-> TRUE, aware |-> TRUE, t |-> t]
Naive(t) == [some |-> TRUE, aware |-> FALSE, t |-> t]

\* Python truthiness of an Optional[int]
TruthyInt(v) == v # None /\ v[1] # 0

(***************************************************************************)
(* app/state.py: the state store.  A table is the set of its rows; the     *)
(* column last_synced_at of files is written and never read by the engine  *)
(* and is left out.                                                        *)
(***************************************************************************)

\* last_updated.strftime(ISO_FORMAT): the text holds the clock fields and a
\* literal "Z"; the tzinfo of the datetime is not part of the text.
Strftime(dt) == IF dt.some THEN Some(dt.t) ELSE None

\* datetime.strptime(value, ISO_FORMAT): the "Z" is matched as a literal, so
\* the result is a naive datetime.
_parse_datetime(value) == IF value = None THEN NoTime ELSE Naive(value[1])

upsert_file(tbl, path, sha256) ==
    {r \in tbl : r.path # path} \cup {[path |-> path, sha256 |-> sha256]}

get_file(tbl, path) ==
    IF \E r \in tbl : r.path = path
    THEN Some(CHOOSE r \in tbl : r.path = path)
    ELSE None

\* a variant of the operator below: a row that exists is left as it is
upsert_page_keeps_row(tbl, page_id, title, parent_page_id, version, last_updated) ==
    IF \E r \in tbl : r.page_id = page_id THEN tbl
    ELSE tbl \cup {[page_id |-> page_id, title |-> title,
                    parent_page_id |-> parent_page_id,
                    last_seen_version |-> version,
                    last_seen_remote_updated_at |-> Strftime(last_updated)]}

\* a variant of the operator below: a row that exists has its version
\* raised by one on top of what is written
upsert_page_counts_writes(tbl, page_id, title, parent_page_id, version, last_updated) ==
    {r \in tbl : r.page_id # page_id}
        \cup {[page_id |-> page_id, title |-> title,
               parent_page_id |-> parent_page_id,
               last_seen_version |->
                   IF (\E r \in tbl : r.page_id = page_id) /\ version # <<>>
                   THEN <<version[1] + 1>> ELSE version,
               last_seen_remote_updated_at |->
                   IF last_updated.some THEN <<last_updated.t>> ELSE <<>>]}

upsert_page(tbl, page_id, title, parent_page_id, version, last_updated) ==
    {r \in tbl : r.page_id # page_id}
        \cup {[page_id |-> page_id, title |-> title,
               parent_page_id |-> parent_page_id,
               last_seen_version |-> version,
               last_seen_remote_updated_at |-> Strftime(last_updated)]}

\* StateStore.get_page
state_get_page(tbl, page_id) ==
    IF \E r \in tbl : r.page_id = page_id
    THEN LET row == CHOOSE r \in tbl : r.page_id = page_id
         IN Some([page_id |-> row.page_id, title |-> row.title,
                  parent_page_id |-> row.parent_page_id,
                  last_seen_version |-> row.last_seen_version,
                  last_seen_remote_updated_at |->
                      _parse_datetime(row.last_seen_remote_updated_at)])
    ELSE None

\* (set_binding_without_unique is a variant of set_binding: the column
\* page_id is not declared UNIQUE.)
\* INSERT ... ON CONFLICT(file_path) DO UPDATE SET page_id: the upsert resolves
\* a clash on the primary key only; a row of another path that already holds
\* page_id breaks UNIQUE(page_id) and sqlite3 raises IntegrityError. Foreign
\* keys are not enforced (no PRAGMA foreign_keys).
set_binding_without_unique(tbl, file_path, page_id) ==
    [ok |-> TRUE,
     tbl |-> {r \in tbl : r.file_path # file_path}
               \cup {[file_path |-> file_path, page_id |-> page_id]}]

set_binding(tbl, file_path, page_id) ==
    IF \E r \in tbl : r.page_id = page_id /\ r.file_path # file_path
    THEN [ok |-> FALSE, tbl |-> tbl]
    ELSE [ok |-> TRUE,
          tbl |-> {r \in tbl : r.file_path # file_path}
                    \cup {[file_path |-> file_path, page_id |-> page_id]}]

get_binding_for_path(tbl, file_path) ==
    IF \E r \in tbl : r.file_path = file_path
    THEN Some(CHOOSE r \in tbl : r.file_path = file_path)
    ELSE None

get_binding_for_page(tbl, page_id) ==
    IF \E r \in tbl : r.page_id = page_id
    THEN Some(CHOOSE r \in tbl : r.page_id = page_id)
    ELSE None

remove_binding(tbl, file_path) == {r \in tbl : r.file_path # file_path}

(***************************************************************************)
(* app/conflicts.py                                                        *)
(***************************************************************************)

\* a > b on datetimes: "TypeError" when one is aware and the other naive
DatetimeGreater(a, b) ==
    IF a.aware # b.aware THEN "TypeError"
    ELSE IF a.t > b.t THEN "True" ELSE "False"

\* a variant of the operator below: the hash of the note is not looked at
has_conflict_ignores_hash(file_record, page_record, remote_page, current_sha) ==
    IF file_record = None \/ page_record = None \/ remote_page = None
    THEN "False"
    ELSE IF /\ remote_page[1].version # 0
            /\ TruthyInt(page_record[1].last_seen_version)
            /\ remote_page[1].version > page_record[1].last_seen_version[1]
    THEN "True"
    ELSE IF /\ remote_page[1].last_updated.some
            /\ page_record[1].last_seen_remote_updated_at.some
    THEN DatetimeGreater(remote_page[1].last_updated,
                         page_record[1].last_seen_remote_updated_at)
    ELSE "False"

\* a variant of the operator below: a page never seen before counts as changed
has_conflict_absent_is_changed(file_record, page_record, remote_page, current_sha) ==
    IF file_record = None \/ remote_page = None
    THEN "False"
    ELSE IF current_sha = file_record[1].sha256 THEN "False"
    ELSE IF page_record = None THEN "True"
    ELSE IF /\ remote_page[1].version # 0
            /\ TruthyInt(page_record[1].last_seen_version)
            /\ remote_page[1].version > page_record[1].last_seen_version[1]
    THEN "True"
    ELSE IF /\ remote_page[1].last_updated.some
            /\ page_record[1].last_seen_remote_updated_at.some
    THEN DatetimeGreater(remote_page[1].last_updated,
                         page_record[1].last_seen_remote_updated_at)
    ELSE "False"

\* a variant of the operator below: the versions are compared the wrong way round
has_conflict_version_reversed(file_record, page_record, remote_page, current_sha) ==
    IF file_record = None \/ page_record = None \/ remote_page = None
    THEN "False"
    ELSE IF current_sha = file_record[1].sha256 THEN "False"
    ELSE IF /\ remote_page[1].version # 0
            /\ TruthyInt(page_record[1].last_seen_version)
            /\ remote_page[1].version < page_record[1].last_seen_version[1]
    THEN "True"
    ELSE IF /\ remote_page[1].last_updated.some
            /\ page_record[1].last_seen_remote_updated_at.some
    THEN DatetimeGreater(remote_page[1].last_updated,
                         page_record[1].last_seen_remote_updated_at)
    ELSE "False"

\* a variant of the operator below: the timestamps are compared before the versions
has_conflict_timestamp_first(file_record, page_record, remote_page, current_sha) ==
    IF file_record = None \/ page_record = None \/ remote_page = None
    THEN "False"
    ELSE IF current_sha = file_record[1].sha256 THEN "False"
    ELSE IF /\ remote_page[1].last_updated.some
            /\ page_record[1].last_seen_remote_updated_at.some
    THEN DatetimeGreater(remote_page[1].last_updated,
                         page_record[1].last_seen_remote_updated_at)
    ELSE IF /\ remote_page[1].version # 0
            /\ TruthyInt(page_record[1].last_seen_version)
            /\ remote_page[1].version > page_record[1].last_seen_version[1]
    THEN "True"
    ELSE "False"

\* "True", "False", or "TypeError" when the comparison of the timestamps raises
has_conflict(file_record, page_record, remote_page, current_sha) ==
    IF file_record = None \/ page_record = None \/ remote_page = None
    THEN "False"
    ELSE IF current_sha = file_record[1].sha256 THEN "False"
    ELSE IF /\ remote_page[1].version # 0
            /\ TruthyInt(page_record[1].last_seen_version)
            /\ remote_page[1].version > page_record[1].last_seen_version[1]
    THEN "True"
    ELSE IF /\ remote_page[1].last_updated.some
            /\ page_record[1].last_seen_remote_updated_at.some
    THEN DatetimeGreater(remote_page[1].last_updated,
                         page_record[1].last_seen_remote_updated_at)
    ELSE "False"

(***************************************************************************)
(* The engine's world: everything one _process_note reads and writes, as   *)
(* one record threaded through the calls it makes.                         *)
(***************************************************************************)
World == [remote |-> remote, clock |-> clock, files |-> files, pages |-> pages,
          bindings |-> bindings, cache |-> cache, root_page |-> root_page,
          dry_counter |-> dry_counter, calls |-> <<>>, fault |-> fault]

\* a request: the page it reads or writes (for find_page and create_page the
\* page is not known, only the parent), the title and version number it sends
Call(op, page_id, parent, title, version) ==
    [op |-> op, page_id |-> page_id, parent |-> parent, title |-> title,
     version |-> version]

Log(w, c) == [w EXCEPT !.calls = Append(@, c)]

WriteOps == {"post_root", "create_page", "update_page", "update_labels",
             "upload_attachment"}

RootTitle == "Knowledge Base"

(***************************************************************************)
(* app/client.py: the operations of ConfluenceClient and the server's      *)
(* answers.  Page n of remote has id "n".  get_page of an id the server   *)
(* does not have fails (404, ConfluenceError).  The title search ("find",  *)
(* GET /rest/api/content), the creation of a page ("create", POST          *)
(* /rest/api/content) and the update of a page ("update", PUT              *)
(* /rest/api/content/{id}) fail while the server is at fault for them:     *)
(* _request raises ConfluenceError, at once or after its retries.  exc is  *)
(* the exception an operation raises, "" when it returns.                  *)
(***************************************************************************)

\* what an operation that raised leaves in the place of the page
NoPage == [page_id |-> NoId, title |-> "", parent_page_id |-> NoId,
           version |-> 0, last_updated |-> NoTime]

\* version.when of a write made at time t
Stamp(t) == IF sendsWhen THEN Aware(t) ELSE NoTime

_parse_remote_page(rem, n) ==
    [page_id |-> RealId(n), title |-> rem[n].title,
     parent_page_id |-> rem[n].parent, version |-> rem[n].version,
     last_updated |-> rem[n].when]

\* page = None: the request raised
client_get_page(w, page_id) ==
    [w |-> Log(w, Call("get_page", page_id, NoId, "", 0)),
     page |-> IF page_id.kind = "page" /\ page_id.n \in 1..Len(w.remote)
              THEN Some(_parse_remote_page(w.remote, page_id.n))
              ELSE None]

find_page(w, title, parent_page_id) ==
    LET matches == {n \in 1..Len(w.remote) :
                       /\ w.remote[n].title = title
                       /\ IF parent_page_id # NoId
                          THEN w.remote[n].parent = parent_page_id
                          ELSE w.remote[n].parent = NoId}
        first == CHOOSE n \in matches : \A m \in matches : n <= m
    IN [w |-> Log(w, Call("find_page", NoId, parent_page_id, title, 0)),
        page |-> IF matches = {} \/ "find" \in w.fault THEN None
                 ELSE Some(_parse_remote_page(w.remote, first)),
        exc |-> IF "find" \in w.fault THEN "ConfluenceError" ELSE ""]

update_labels(w, page_id, labels) ==
    IF labels = <<>> THEN w
    ELSE Log(w, Call("update_labels", page_id, NoId, "", 0))

create_page(w, title, parent_page_id, labels) ==
    LET n  == Len(w.remote) + 1
        w1 == [Log(w, Call("create_page", NoId, parent_page_id, title, 1))
                 EXCEPT !.clock = @ + 1,
                        !.remote = Append(@, [title |-> title,
                                              parent |-> parent_page_id,
                                              version |-> 1,
                                              when |-> Stamp(w.clock + 1)])]
        w2 == update_labels(w1, RealId(n), labels)
        g  == client_get_page(w2, RealId(n))
    IN IF "create" \in w.fault
       THEN [w |-> Log(w, Call("create_page", NoId, parent_page_id, title, 1)),
             page |-> NoPage, exc |-> "ConfluenceError"]
       ELSE [w |-> g.w, page |-> g.page[1], exc |-> ""]

\* PUT with version.number = version; the server takes it as the page's
\* next version and answers with the page as written.
update_page(w, page_id, title, parent_page_id, labels, version) ==
    LET n  == page_id.n
        w1 == [Log(w, Call("update_page", page_id, parent_page_id, title, version))
                 EXCEPT !.clock = @ + 1,
                        !.remote[n] = [title |-> title,
                                       parent |-> IF parent_page_id # NoId
                                                  THEN parent_page_id
                                                  ELSE @.parent,
                                       version |-> version,
                                       when |-> Stamp(w.clock + 1)]]
        w2 == update_labels(w1, page_id, labels)
    IN IF "update" \in w.fault
       THEN [w |-> Log(w, Call("update_page", page_id, parent_page_id, title,
                               version)),
             page |-> NoPage, exc |-> "ConfluenceError"]
       ELSE [w |-> w2, page |-> _parse_remote_page(w1.remote, n), exc |-> ""]

ensure_root_page(w, title) ==
    LET f == find_page(Log(w, Call("ensure_root_page", NoId, NoId, title, 0)),
                       title, NoId)
        n == Len(w.remote) + 1
        w1 == [Log(f.w, Call("post_root", NoId, NoId, title, 1))
                 EXCEPT !.clock = @ + 1,
                        !.remote = Append(@, [title |-> title, parent |-> NoId,
                                              version |-> 1,
                                              when |-> Stamp(w.clock + 1)])]
        g == client_get_page(w1, RealId(n))
    IN IF f.exc # "" THEN [w |-> f.w, page |-> NoPage, exc |-> f.exc]
       ELSE IF f.page # None THEN [w |-> f.w, page |-> f.page[1], exc |-> ""]
       ELSE IF "create" \in w.fault
       THEN [w |-> Log(f.w, Call("post_root", NoId, NoId, title, 1)),
             page |-> NoPage, exc |-> "ConfluenceError"]
       ELSE [w |-> g.w, page |-> g.page[1], exc |-> ""]

upload_attachment(w, page_id) == Log(w, Call("upload_attachment", page_id, NoId, "", 0))

(***************************************************************************)
(* app/sync.py: PageHierarchyManager                                       *)
(***************************************************************************)

\* title.lower().replace(' ', '-')
Slug(title) ==
    CASE title = "root" -> "root"
      [] title = "Knowledge Base" -> "knowledge-base"
      [] title = "Drafts" -> "drafts"
      [] title = "Guides" -> "guides"
      [] OTHER -> "other"

\* a variant of the operator below: no key is ever found in the cache
cache_never_hits(c, title, parent_id) == FALSE

\* key in self._cache
CacheHas(c, title, parent_id) ==
    \E e \in c : e.title = title /\ e.parent_id = parent_id

CacheGet(c, title, parent_id) ==
    (CHOOSE e \in c : e.title = title /\ e.parent_id = parent_id).page_id

CachePut(c, title, parent_id, page_id) ==
    {e \in c : ~(e.title = title /\ e.parent_id = parent_id)}
        \cup {[title |-> title, parent_id |-> parent_id, page_id |-> page_id]}

\* a variant of the operator below: the counter is read and not advanced
_synthetic_id_keeps_counter(w, title) ==
    [w |-> w,
     id |-> [kind |-> "dryrun", n |-> w.dry_counter + 1, slug |-> Slug(title)]]

_synthetic_id(w, title) ==
    [w |-> [w EXCEPT !.dry_counter = @ + 1],
     id |-> [kind |-> "dryrun", n |-> w.dry_counter + 1, slug |-> Slug(title)]]

\* a variant of the operator below: the version recorded is the one before
\* the page's
record_page_version_before(tbl, page) ==
    upsert_page(tbl, page.page_id, page.title, page.parent_page_id,
                Some(page.version - 1), page.last_updated)

record_page(tbl, page) ==
    upsert_page(tbl, page.page_id, page.title, page.parent_page_id,
                Some(page.version), page.last_updated)

\* _ensure_root after client.ensure_root_page returned or raised (r)
on_root_page(r) ==
    IF r.exc # "" THEN [w |-> r.w, page |-> NoPage, exc |-> r.exc]
    ELSE [w |-> [r.w EXCEPT !.pages = record_page(@, r.page),
                            !.cache = CachePut(@, r.page.title,
                                               r.page.parent_page_id,
                                               r.page.page_id),
                            !.root_page = Some(r.page)],
          page |-> r.page, exc |-> ""]

\* a variant of the operator below: the root page kept by the manager is
\* not looked at
_ensure_root_asks_again(w, dry) ==
    IF dry
    THEN IF w.root_page # None
         THEN [w |-> w, page |-> w.root_page[1], exc |-> ""]
         ELSE LET s == _synthetic_id(w, "root")
                  page == [page_id |-> s.id, title |-> RootTitle,
                           parent_page_id |-> NoId, version |-> 1,
                           last_updated |-> NoTime]
              IN [w |-> [s.w EXCEPT !.root_page = Some(page),
                                    !.cache = CachePut(@, page.title, NoId,
                                                       page.page_id)],
                  page |-> page, exc |-> ""]
    ELSE on_root_page(ensure_root_page(w, RootTitle))

\* a variant of the operator below: the root is looked up in a dry run too
_ensure_root_ignores_dry(w, dry) ==
    IF w.root_page # None THEN [w |-> w, page |-> w.root_page[1], exc |-> ""]
    ELSE on_root_page(ensure_root_page(w, RootTitle))

_ensure_root(w, dry) ==
    IF w.root_page # None THEN [w |-> w, page |-> w.root_page[1], exc |-> ""]
    ELSE IF dry
    THEN LET s == _synthetic_id(w, "root")
             page == [page_id |-> s.id, title |-> RootTitle,
                      parent_page_id |-> NoId, version |-> 1,
                      last_updated |-> NoTime]
         IN [w |-> [s.w EXCEPT !.root_page = Some(page),
                               !.cache = CachePut(@, page.title, NoId, page.page_id)],
             page |-> page, exc |-> ""]
    ELSE on_root_page(ensure_root_page(w, RootTitle))

\* a variant of the operator below: on a miss in a real run the page is
\* created without a search for an existing one
_ensure_page_creates_unseen(w, title, parent_id, dry) ==
    IF CacheHas(w.cache, title, parent_id)
    THEN [w |-> w, id |-> CacheGet(w.cache, title, parent_id), exc |-> ""]
    ELSE IF dry
    THEN LET s == _synthetic_id(w, title)
         IN [w |-> [s.w EXCEPT !.cache = CachePut(@, title, parent_id, s.id)],
             id |-> s.id, exc |-> ""]
    ELSE LET c == create_page(w, title, parent_id, <<>>)
         IN IF c.exc # "" THEN [w |-> c.w, id |-> NoId, exc |-> c.exc]
            ELSE [w |-> [c.w EXCEPT !.pages = record_page(@, c.page),
                                    !.cache = CachePut(@, title, parent_id,
                                                       c.page.page_id)],
                  id |-> c.page.page_id, exc |-> ""]

_ensure_page(w, title, parent_id, dry) ==
    IF CacheHas(w.cache, title, parent_id)
    THEN [w |-> w, id |-> CacheGet(w.cache, title, parent_id), exc |-> ""]
    ELSE IF dry
    THEN LET s == _synthetic_id(w, title)
         IN [w |-> [s.w EXCEPT !.cache = CachePut(@, title, parent_id, s.id)],
             id |-> s.id, exc |-> ""]
    ELSE LET f == find_page(w, title, parent_id)
             c == create_page(f.w, title, parent_id, <<>>)
         IN IF f.exc # "" THEN [w |-> f.w, id |-> NoId, exc |-> f.exc]
            ELSE IF f.page # None
            THEN [w |-> [f.w EXCEPT !.cache = CachePut(@, title, parent_id,
                                                       f.page[1].page_id),
                                    !.pages = record_page(@, f.page[1])],
                  id |-> f.page[1].page_id, exc |-> ""]
            ELSE IF c.exc # "" THEN [w |-> c.w, id |-> NoId, exc |-> c.exc]
            ELSE [w |-> [c.w EXCEPT !.pages = record_page(@, c.page),
                                    !.cache = CachePut(@, title, parent_id,
                                                       c.page.page_id)],
                  id |-> c.page.page_id, exc |-> ""]

\* a variant of the operator below: the declared parent is looked for under
\* the folders of the note
title_chain_parent_below_folders(note) ==
    IF note.parent # "" THEN note.folders \o <<note.parent>> ELSE note.folders

\* a variant of the operator below: the declared parent is not looked at
title_chain_ignores_parent(note) == note.folders

\* note.frontmatter.parent is "" when the note declares none
title_chain(note) ==
    IF note.parent # "" THEN <<note.parent>> ELSE note.folders

\* the loop of resolve_parent over title_chain: ensure_chain is the loop
\* from one title on, on_ensured what follows the _ensure_page of a title
\* (e is what it returned or raised)
RECURSIVE ensure_chain(_, _, _, _)
RECURSIVE on_ensured(_, _, _)
ensure_chain(w, chain, parent_id, dry) ==
    IF chain = <<>> THEN [w |-> w, id |-> parent_id, exc |-> ""]
    ELSE on_ensured(_ensure_page(w, Head(chain), parent_id, dry), chain, dry)

on_ensured(e, chain, dry) ==
    IF e.exc # "" THEN e
    ELSE ensure_chain(e.w, Tail(chain), e.id, dry)

\* resolve_parent after _ensure_root returned or raised (r)
on_root(r, note, dry) ==
    IF r.exc # "" THEN [w |-> r.w, id |-> NoId, exc |-> r.exc]
    ELSE ensure_chain(r.w, title_chain(note), r.page.page_id, dry)

resolve_parent(w, note, dry) == on_root(_ensure_root(w, dry), note, dry)

(***************************************************************************)
(* app/sync.py: SyncEngine                                                 *)
(***************************************************************************)

\* a variant of the operator below: the binding is tried before the
\* page_id of the frontmatter
_lookup_target_page_binding_first(w, note, parent_id) ==
    LET binding == get_binding_for_path(w.bindings, note.path)
        byBinding == client_get_page(w, binding[1].page_id)
        hit2  == binding # None /\ byBinding.page # None
        w1    == IF binding # None THEN byBinding.w ELSE w
        byId  == client_get_page(w1, note.page_id)
        hit1  == note.page_id # NoId /\ byId.page # None
        w2    == IF note.page_id # NoId THEN byId.w ELSE w1
        found == find_page(w2, note.title, parent_id)
    IN IF hit2
       THEN [w |-> byBinding.w, page |-> byBinding.page, binding |-> binding,
             exc |-> ""]
       ELSE IF hit1
       THEN [w |-> byId.w, page |-> byId.page,
             binding |-> get_binding_for_page(byId.w.bindings,
                                              byId.page[1].page_id),
             exc |-> ""]
       ELSE [w |-> found.w, page |-> found.page, binding |-> binding,
             exc |-> found.exc]

\* a variant of the operator below: a failed fetch of the bound page is not
\* caught
_lookup_target_page_binding_raises(w, note, parent_id) ==
    LET byId  == client_get_page(w, note.page_id)
        hit1  == note.page_id # NoId /\ byId.page # None
        w1    == IF note.page_id # NoId THEN byId.w ELSE w
        binding == get_binding_for_path(w1.bindings, note.path)
        byBinding == client_get_page(w1, binding[1].page_id)
        hit2  == binding # None /\ byBinding.page # None
        found == find_page(w1, note.title, parent_id)
    IN IF hit1
       THEN [w |-> byId.w, page |-> byId.page,
             binding |-> get_binding_for_page(byId.w.bindings,
                                              byId.page[1].page_id),
             exc |-> ""]
       ELSE IF hit2
       THEN [w |-> byBinding.w, page |-> byBinding.page, binding |-> binding,
             exc |-> ""]
       ELSE IF binding # None
       THEN [w |-> byBinding.w, page |-> None, binding |-> binding,
             exc |-> "ConfluenceError"]
       ELSE [w |-> found.w, page |-> found.page, binding |-> binding,
             exc |-> found.exc]

_lookup_target_page(w, note, parent_id) ==
    LET byId  == client_get_page(w, note.page_id)
        hit1  == note.page_id # NoId /\ byId.page # None
        w1    == IF note.page_id # NoId THEN byId.w ELSE w
        binding == get_binding_for_path(w1.bindings, note.path)
        byBinding == client_get_page(w1, binding[1].page_id)
        hit2  == binding # None /\ byBinding.page # None
        w2    == IF binding # None THEN byBinding.w ELSE w1
        found == find_page(w2, note.title, parent_id)
    IN IF hit1
       THEN [w |-> byId.w, page |-> byId.page,
             binding |-> get_binding_for_page(byId.w.bindings,
                                              byId.page[1].page_id),
             exc |-> ""]
       ELSE IF hit2
       THEN [w |-> byBinding.w, page |-> byBinding.page, binding |-> binding,
             exc |-> ""]
       ELSE [w |-> found.w, page |-> found.page, binding |-> binding,
             exc |-> found.exc]

\* a variant of the operator below: the hash of the note is not stored
_record_state_forgets_file(w, note, remote_page) ==
    [w EXCEPT !.pages = record_page(@, remote_page)]

\* a variant of the operator below: the page is not recorded
_record_state_forgets_page(w, note, remote_page) ==
    [w EXCEPT !.files = upsert_file(@, note.path, note.sha256)]

_record_state(w, note, remote_page) ==
    [w EXCEPT !.files = upsert_file(@, note.path, note.sha256),
              !.pages = record_page(@, remote_page)]

RECURSIVE upload_attachments(_, _, _)
upload_attachments(w, page_id, images) ==
    IF images = 0 THEN w
    ELSE upload_attachments(upload_attachment(w, page_id), page_id, images - 1)

\* a variant of the operator below: the page is created in a dry run too
_create_page_ignores_dry(w, note, parent_id, labels, images, dry) ==
    LET c  == create_page(w, note.title, parent_id, labels)
        w1 == _record_state(c.w, note, c.page)
        b  == set_binding(w1.bindings, note.path, c.page.page_id)
        w2 == [w1 EXCEPT !.bindings = b.tbl]
    IN IF ~b.ok THEN [w |-> w1, page |-> None, exc |-> "IntegrityError"]
       ELSE [w |-> upload_attachments(w2, c.page.page_id, images),
             page |-> Some(c.page), exc |-> ""]

\* exc = "IntegrityError" when set_binding raised
_create_page(w, note, parent_id, labels, images, dry) ==
    IF dry THEN [w |-> w, page |-> None, exc |-> ""]
    ELSE LET c  == create_page(w, note.title, parent_id, labels)
             w1 == _record_state(c.w, note, c.page)
             b  == set_binding(w1.bindings, note.path, c.page.page_id)
             w2 == [w1 EXCEPT !.bindings = b.tbl]
         IN IF c.exc # "" THEN [w |-> c.w, page |-> None, exc |-> c.exc]
            ELSE IF ~b.ok THEN [w |-> w1, page |-> None, exc |-> "IntegrityError"]
            ELSE [w |-> upload_attachments(w2, c.page.page_id, images),
                  page |-> Some(c.page), exc |-> ""]

_update_page(w, note, remote_page, parent_id, labels, images, dry) ==
    IF dry THEN [w |-> w, page |-> None, exc |-> ""]
    ELSE LET u  == update_page(w, remote_page.page_id, note.title, parent_id,
                               labels, remote_page.version + 1)
             w1 == _record_state(u.w, note, u.page)
             b  == set_binding(w1.bindings, note.path, u.page.page_id)
             w2 == [w1 EXCEPT !.bindings = b.tbl]
         IN IF u.exc # "" THEN [w |-> u.w, page |-> None, exc |-> u.exc]
            ELSE IF ~b.ok THEN [w |-> w1, page |-> None, exc |-> "IntegrityError"]
            ELSE [w |-> upload_attachments(w2, u.page.page_id, images),
                  page |-> Some(u.page), exc |-> ""]

Entry(note, action, reason, target_page_id, parent_page_id) ==
    [path |-> note.path, action |-> action, reason |-> reason,
     target_page_id |-> target_page_id, parent_page_id |-> parent_page_id,
     labels |-> note.labels]

NoEntry == [path |-> "", action |-> "", reason |-> "", target_page_id |-> NoId,
            parent_page_id |-> NoId, labels |-> <<>>]

\* a variant of the operator below: the page record is brought up to the version seen
on_conflict_records_page(w, note, target_page, parent_id) ==
    [w |-> [w EXCEPT !.pages = record_page(@, target_page)], exc |-> "",
     conflict |-> Some([file_path |-> note.path,
                        page_id |-> target_page.page_id,
                        reason |-> "Remote page changed since last sync"]),
     entry |-> Entry(note, "conflict",
                     "Remote page changed; manual review required",
                     target_page.page_id, parent_id)]

\* _process_note, the branch taken when has_conflict is true
on_conflict(w, note, target_page, parent_id) ==
    [w |-> w, exc |-> "",
     conflict |-> Some([file_path |-> note.path,
                        page_id |-> target_page.page_id,
                        reason |-> "Remote page changed since last sync"]),
     entry |-> Entry(note, "conflict",
                     "Remote page changed; manual review required",
                     target_page.page_id, parent_id)]

\* a variant of the operator below: the page as fetched is written to the
\* pages table
on_unchanged_records_page(w, note, target_page, parent_id) ==
    [w |-> [w EXCEPT !.pages = record_page(@, target_page)], exc |-> "",
     conflict |-> None,
     entry |-> Entry(note, "skip", "No changes detected",
                     target_page.page_id, parent_id)]

\* a variant of the operator below: the records are refreshed from the page as fetched
on_unchanged_refreshes_state(w, note, target_page, parent_id) ==
    [w |-> _record_state(w, note, target_page), exc |-> "", conflict |-> None,
     entry |-> Entry(note, "skip", "No changes detected",
                     target_page.page_id, parent_id)]

\* _process_note, the branch taken when the stored hash is the note's hash
on_unchanged(w, note, target_page, parent_id) ==
    [w |-> w, exc |-> "", conflict |-> None,
     entry |-> Entry(note, "skip", "No changes detected",
                     target_page.page_id, parent_id)]

\* _process_note after _update_page or _create_page returned r: the plan
\* entry names the page written, or page_id when nothing was written
on_written(r, note, action, page_id, parent_id) ==
    [w |-> r.w, exc |-> r.exc, conflict |-> None,
     entry |-> Entry(note, action, "",
                     IF r.page # None THEN r.page[1].page_id ELSE page_id,
                     parent_id)]

\* _process_note from the conflict check on; conflict is what has_conflict
\* answered ("False" when there is no target page)
on_checked(w, note, dry, parent_id, target_page, file_record, conflict) ==
    IF conflict = "TypeError"
    THEN [w |-> w, exc |-> "TypeError", conflict |-> None, entry |-> NoEntry]
    ELSE IF conflict = "True"
    THEN on_conflict(w, note, target_page[1], parent_id)
    ELSE IF /\ target_page # None
            /\ file_record # None
            /\ file_record[1].sha256 = note.sha256
    THEN on_unchanged(w, note, target_page[1], parent_id)
    ELSE IF target_page # None
    THEN on_written(_update_page(w, note, target_page[1], parent_id,
                                 note.labels, note.images, dry),
                    note, "update", target_page[1].page_id, parent_id)
    ELSE on_written(_create_page(w, note, parent_id, note.labels,
                                 note.images, dry),
                    note, "create", NoId, parent_id)

\* _process_note from the reading of the page record and the file record
\* on; l is what _lookup_target_page returned
on_target(l, note, dry, parent_id) ==
    IF l.exc # ""
    THEN [w |-> l.w, exc |-> l.exc, conflict |-> None, entry |-> NoEntry]
    ELSE
    on_checked(l.w, note, dry, parent_id, l.page,
               get_file(l.w.files, note.path),
               IF l.page # None
               THEN has_conflict(get_file(l.w.files, note.path),
                                 state_get_page(l.w.pages, l.page[1].page_id),
                                 l.page, note.sha256)
               ELSE "False")

\* _process_note from the lookup of the target page on; p is what
\* resolve_parent returned
on_parent(p, note, dry) ==
    IF p.exc # ""
    THEN [w |-> p.w, exc |-> p.exc, conflict |-> None, entry |-> NoEntry]
    ELSE
    on_target(_lookup_target_page(p.w, note, p.id), note, dry, p.id)

\* a variant of the operator below: the parent of an excluded note is
\* resolved before the note is skipped
_process_note_resolves_excluded(w, note, dry) ==
    IF note.exclude
    THEN [w |-> resolve_parent(w, note, dry).w, exc |-> "", conflict |-> None,
          entry |-> Entry(note, "skip", "Frontmatter exclude flag", NoId, NoId)]
    ELSE on_parent(resolve_parent(w, note, dry), note, dry)

\* the plan entry and conflict record _process_note returns, or the
\* exception it lets through (exc), with the world as it leaves it
_process_note(w, note, dry) ==
    IF note.exclude
    THEN [w |-> w, exc |-> "", conflict |-> None,
          entry |-> Entry(note, "skip", "Frontmatter exclude flag", NoId, NoId)]
    ELSE on_parent(resolve_parent(w, note, dry), note, dry)

\* a variant of the operator below: a conflict is counted as skipped
register_conflict_as_skip(s, action) ==
    CASE action = "create" -> [s EXCEPT !.created = @ + 1]
      [] action = "update" -> [s EXCEPT !.updated = @ + 1]
      [] action = "skip" -> [s EXCEPT !.skipped = @ + 1]
      [] action = "conflict" -> [s EXCEPT !.skipped = @ + 1]
      [] OTHER -> s

\* SyncSummary.register
register(s, action) ==
    CASE action = "create" -> [s EXCEPT !.created = @ + 1]
      [] action = "update" -> [s EXCEPT !.updated = @ + 1]
      [] action = "skip" -> [s EXCEPT !.skipped = @ + 1]
      [] action = "conflict" -> [s EXCEPT !.conflicts = @ + 1]
      [] OTHER -> s

(***************************************************************************)
(* The vault (app/scan.py): notes in sorted path order.  The frontmatter   *)
(* of a note is fixed for a behaviour; its content hash changes when the   *)
(* file is edited.                                                         *)
(***************************************************************************)
Note1 ==
    [path |-> "Drafts/Example.md", folders |-> <<"Drafts">>,
     title |-> "Example Title", parent |-> "", exclude |-> FALSE,
     page_id |-> NoId, labels |-> <<"docs", "example">>, images |-> 1]

\* the second note lies in the folder of the first ("folder"), at the vault
\* root ("root"), or at the vault root with frontmatter parent: Guides
Note2(place, title, exclude, page_id) ==
    [path |-> IF place = "folder" THEN "Drafts/Other.md" ELSE "Notes.md",
     folders |-> IF place = "folder" THEN <<"Drafts">> ELSE <<>>,
     title |-> title,
     parent |-> IF place = "parent" THEN "Guides" ELSE "",
     exclude |-> exclude, page_id |-> page_id, labels |-> <<>>, images |-> 0]

Vaults ==
    {<<Note1, Note2(place, title, exclude, page_id)>> :
        place \in {"folder", "root", "parent"},
        title \in {"Example Title", "Other"}, exclude \in BOOLEAN,
        page_id \in {NoId, RealId(3)}}

\* the paths of the vaults in the order of sorted(): Path objects compare
\* part by part
SortedPaths == <<"Drafts/Example.md", "Drafts/Other.md", "Notes.md">>

PathRank(path) == CHOOSE k \in 1..Len(SortedPaths) : SortedPaths[k] = path

\* scan_vault: every note with the sha256 of its file
scan_vault ==
    [i \in 1..Len(vault) |->
        [path |-> vault[i].path, folders |-> vault[i].folders,
         title |-> vault[i].title, parent |-> vault[i].parent,
         exclude |-> vault[i].exclude, page_id |-> vault[i].page_id,
         labels |-> vault[i].labels, images |-> vault[i].images,
         sha256 |-> disk[i]]]

\* a space that already holds the root, the folder page and a page with the
\* title of the first note
ExistingSpace(sw) ==
    LET at(t) == IF sw THEN Aware(t) ELSE NoTime
    IN << [title |-> RootTitle, parent |-> NoId, version |-> 1, when |-> at(1)],
          [title |-> "Drafts", parent |-> RealId(1), version |-> 1, when |-> at(2)],
          [title |-> "Example Title", parent |-> RealId(2), version |-> 1,
           when |-> at(3)] >>

(***************************************************************************)
(* Initial state: a new state store, an empty or an existing space         *)
(***************************************************************************)
NoSummary == [created |-> 0, updated |-> 0, skipped |-> 0, conflicts |-> 0]

HcIdle == [file_record |-> None, page_record |-> None, remote_page |-> None,
           current_sha |-> 0, result |-> "idle"]

SbIdle == [op |-> "", file_path |-> "", page_id |-> NoId, raised |-> ""]

ReqIdle == [state |-> "idle", outcomes |-> <<>>, error |-> None]

\* the server answers every request
NoFault == {}

\* resolve_parent has not been called on its own
RpIdle == <<>>

\* no note is being written to the store statement by statement
WrIdle == [stage |-> "idle", path |-> "", sha256 |-> 0, page |-> NoPage]

\* no upsert has been made on the store directly
UpIdle == [op |-> "", path |-> "", sha256 |-> 0, page |-> NoPage, times |-> 0]

\* what a run starts on: the vault, the state store and the space
Snapshot == [disk |-> disk, remote |-> remote, files |-> files, pages |-> pages,
             bindings |-> bindings, fault |-> fault]

\* no dry run to compare with
NoDry == [valid |-> FALSE, plan |-> <<>>, on |-> <<>>]

InitEngine ==
    /\ files = {} /\ pages = {} /\ bindings = {}
    /\ pc = "idle" /\ dry_run = FALSE /\ notes = <<>> /\ idx = 1
    /\ cache = {} /\ root_page = None /\ dry_counter = 0
    /\ plan = <<>> /\ conflict_records = <<>> /\ summary = NoSummary
    /\ calls = <<>> /\ raised = ""
    /\ runs = 0 /\ edits = 0
    /\ stable = FALSE /\ lastReal = <<>>
    /\ prevReal = [valid |-> FALSE, actions |-> <<>>]
    /\ sb = SbIdle /\ req = ReqIdle /\ fault = NoFault
    /\ rp = RpIdle /\ wr = WrIdle /\ up = UpIdle
    /\ lastDry = NoDry /\ prevDry = NoDry

Init ==
    /\ vault \in Vaults
    /\ disk = [i \in 1..Len(vault) |-> 1]
    /\ sendsWhen \in BOOLEAN
    /\ remote \in {<<>>, ExistingSpace(sendsWhen)}
    /\ clock = Len(remote)
    /\ InitEngine
    /\ hc = HcIdle

(***************************************************************************)
(* Actions of the engine                                                   *)
(***************************************************************************)
unchangedEnv ==
    UNCHANGED <<disk, sendsWhen, vault, edits, hc, sb, req, fault, rp, wr, up>>

\* a variant of the operator below: the hierarchy manager's counter of
\* synthetic ids is carried over from the run before
StartRun_keeps_dry_counter(dry) ==
    /\ pc # "running"
    /\ runs < MaxRuns
    /\ runs' = runs + 1
    /\ pc' = "running"
    /\ dry_run' = dry
    /\ notes' = scan_vault
    /\ idx' = 1
    /\ cache' = {} /\ root_page' = None
    /\ plan' = <<>> /\ conflict_records' = <<>> /\ summary' = NoSummary
    /\ calls' = <<>> /\ raised' = ""
    /\ prevReal' = [valid |-> FALSE, actions |-> <<>>]
    /\ prevDry' = IF lastDry.valid /\ lastDry.on = <<Snapshot>>
                  THEN lastDry ELSE NoDry
    /\ UNCHANGED <<remote, clock, files, pages, bindings, stable, lastReal,
                   lastDry, dry_counter>>
    /\ unchangedEnv

\* main.perform_sync: a new SyncEngine, then run(dry_run) up to its loop
StartRun(dry) ==
    /\ pc # "running"
    /\ runs < MaxRuns
    /\ runs' = runs + 1
    /\ pc' = "running"
    /\ dry_run' = dry
    /\ notes' = scan_vault
    /\ idx' = 1
    /\ cache' = {} /\ root_page' = None /\ dry_counter' = 0
    /\ plan' = <<>> /\ conflict_records' = <<>> /\ summary' = NoSummary
    /\ calls' = <<>> /\ raised' = ""
    /\ prevReal' = [valid |-> FALSE, actions |-> <<>>]
    /\ prevDry' = IF lastDry.valid /\ lastDry.on = <<Snapshot>>
                  THEN lastDry ELSE NoDry
    /\ UNCHANGED <<remote, clock, files, pages, bindings, stable, lastReal,
                   lastDry>>
    /\ unchangedEnv

\* a variant of the operator below: the entry of an excluded note is not
\* appended to the plan
on_processed_drops_excluded(r) ==
    /\ remote' = r.w.remote
    /\ clock' = r.w.clock
    /\ files' = r.w.files
    /\ pages' = r.w.pages
    /\ bindings' = r.w.bindings
    /\ cache' = r.w.cache
    /\ root_page' = r.w.root_page
    /\ dry_counter' = r.w.dry_counter
    /\ calls' = r.w.calls
    /\ raised' = r.exc
    /\ IF r.exc # ""
       THEN /\ pc' = "crashed"
            /\ stable' = (stable /\ dry_run)
            /\ UNCHANGED <<plan, summary, conflict_records, idx>>
       ELSE /\ plan' = IF r.entry.reason = "Frontmatter exclude flag"
                       THEN plan ELSE Append(plan, r.entry)
            /\ summary' = register(summary, r.entry.action)
            /\ conflict_records' = conflict_records \o r.conflict
            /\ idx' = idx + 1
            /\ UNCHANGED <<pc, stable>>

\* the loop of run() after _process_note returned or raised (r): the store,
\* the space and the hierarchy manager are as _process_note left them; an
\* exception ends run(), a result is appended to the plan
on_processed(r) ==
    /\ remote' = r.w.remote
    /\ clock' = r.w.clock
    /\ files' = r.w.files
    /\ pages' = r.w.pages
    /\ bindings' = r.w.bindings
    /\ cache' = r.w.cache
    /\ root_page' = r.w.root_page
    /\ dry_counter' = r.w.dry_counter
    /\ calls' = r.w.calls
    /\ raised' = r.exc
    /\ IF r.exc # ""
       THEN /\ pc' = "crashed"
            /\ stable' = (stable /\ dry_run)
            /\ UNCHANGED <<plan, summary, conflict_records, idx>>
       ELSE /\ plan' = Append(plan, r.entry)
            /\ summary' = register(summary, r.entry.action)
            /\ conflict_records' = conflict_records \o r.conflict
            /\ idx' = idx + 1
            /\ UNCHANGED <<pc, stable>>

\* one iteration of the loop of run(): _process_note on the next note
ProcessNote ==
    /\ pc = "running"
    /\ idx <= Len(notes)
    /\ on_processed(_process_note(World, notes[idx], dry_run))
    /\ UNCHANGED <<dry_run, notes, runs, lastReal, prevReal, lastDry, prevDry>>
    /\ unchangedEnv

\* run() returns its SyncResult
FinishRun ==
    /\ pc = "running"
    /\ idx > Len(notes)
    /\ pc' = "done"
    /\ IF dry_run
       THEN UNCHANGED <<stable, lastReal, prevReal>>
       ELSE /\ prevReal' = [valid |-> stable, actions |-> lastReal]
            /\ lastReal' = [i \in 1..Len(plan) |-> plan[i].action]
            /\ stable' = TRUE
    /\ lastDry' = IF dry_run THEN [valid |-> TRUE, plan |-> plan, on |-> <<Snapshot>>]
                  ELSE NoDry
    /\ UNCHANGED <<remote, clock, files, pages, bindings, dry_run, notes, idx,
                   cache, root_page, dry_counter, plan, conflict_records,
                   summary, calls, raised, runs, prevDry>>
    /\ unchangedEnv

(***************************************************************************)
(* Actions of the environment                                              *)
(***************************************************************************)

\* a hash no file of the vault has had
NewSha == 1 + CHOOSE s \in {disk[i] : i \in DOMAIN disk} :
                  \A i \in DOMAIN disk : disk[i] <= s

\* the user edits a note between two runs: the file gets new content.
\* (run() works on the notes as scanned at its start.)
EditNote(i) ==
    /\ pc # "running"
    /\ edits < MaxEdits
    /\ disk' = [disk EXCEPT ![i] = NewSha]
    /\ edits' = edits + 1
    /\ stable' = FALSE
    /\ UNCHANGED <<remote, clock, sendsWhen, files, pages, bindings, pc,
                   dry_run, notes, idx, cache, root_page, dry_counter, plan,
                   conflict_records, summary, calls, raised, vault, runs,
                   lastReal, prevReal, hc, sb, req, fault, rp, wr, up,
                   lastDry, prevDry>>

\* somebody edits, between two runs, a page that carries the title of a note:
\* Confluence makes a new version of it
RemoteEdit(n) ==
    /\ pc # "running"
    /\ \E i \in 1..Len(vault) : remote[n].title = vault[i].title
    /\ edits < MaxEdits
    /\ remote' = [remote EXCEPT ![n].version = @ + 1,
                                ![n].when = Stamp(clock + 1)]
    /\ clock' = clock + 1
    /\ edits' = edits + 1
    /\ stable' = FALSE
    /\ UNCHANGED <<disk, sendsWhen, files, pages, bindings, pc, dry_run, notes,
                   idx, cache, root_page, dry_counter, plan, conflict_records,
                   summary, calls, raised, vault, runs, lastReal, prevReal, hc,
                   sb, req, fault, rp, wr, up, lastDry, prevDry>>

Next ==
    \/ \E dry \in BOOLEAN : StartRun(dry)
    \/ ProcessNote
    \/ FinishRun
    \/ \E i \in 1..Len(vault) : EditNote(i)
    \/ \E n \in 1..Len(remote) : RemoteEdit(n)

Spec == Init /\ [][Next]_vars

(***************************************************************************)
(* has_conflict called on its own, as the unit tests call it: the          *)
(* arguments are drawn from every combination of absent and present        *)
(* records, hashes, versions (Confluence numbers versions from 1) and      *)
(* aware or naive timestamps.                                              *)
(***************************************************************************)
Times == {NoTime} \cup {Aware(t) : t \in 0..MaxTime}
                  \cup {Naive(t) : t \in 0..MaxTime}

FileRecords ==
    {None} \cup {Some([path |-> "Guides/Example.md", sha256 |-> s]) :
                    s \in 1..MaxSha}

PageRecords ==
    {None} \cup
    {Some([page_id |-> RealId(1), title |-> "Example", parent_page_id |-> NoId,
           last_seen_version |-> v, last_seen_remote_updated_at |-> ts]) :
        v \in {None} \cup {Some(k) : k \in 1..MaxVersion}, ts \in Times}

RemotePages ==
    {None} \cup
    {Some([page_id |-> RealId(1), title |-> "Example", parent_page_id |-> NoId,
           version |-> v, last_updated |-> ts]) :
        v \in 1..MaxVersion, ts \in Times}

InitConflict ==
    /\ vault = <<Note1>>
    /\ disk = <<1>>
    /\ sendsWhen = TRUE
    /\ remote = <<>>
    /\ clock = 0
    /\ InitEngine
    /\ \E f \in FileRecords, p \in PageRecords, r \in RemotePages,
          s \in 1..MaxSha :
         hc = [file_record |-> f, page_record |-> p, remote_page |-> r,
               current_sha |-> s, result |-> "pending"]

CallHasConflict ==
    /\ hc.result = "pending"
    /\ hc' = [hc EXCEPT !.result = has_conflict(hc.file_record, hc.page_record,
                                                hc.remote_page, hc.current_sha)]
    /\ UNCHANGED <<disk, remote, clock, sendsWhen, files, pages, bindings, pc,
                   dry_run, notes, idx, cache, root_page, dry_counter, plan,
                   conflict_records, summary, calls, raised, vault, runs, edits,
                   stable, lastReal, prevReal, sb, req, fault, rp, wr, up,
                   lastDry, prevDry>>

NextConflict == CallHasConflict

SpecConflict == InitConflict /\ [][NextConflict]_vars

(***************************************************************************)
(* Properties of has_conflict (SpecConflict)                               *)
(***************************************************************************)
Called == hc.result \notin {"idle", "pending"}

AllPresent ==
    hc.file_record # None /\ hc.page_record # None /\ hc.remote_page # None

HashChanged == hc.current_sha # hc.file_record[1].sha256

\* the remote version is above the last-seen version
VersionNewer ==
    /\ hc.page_record[1].last_seen_version # None
    /\ hc.remote_page[1].version > hc.page_record[1].last_seen_version[1]

\* the remote timestamp is a later instant than the last-seen timestamp
TimeNewer ==
    /\ hc.remote_page[1].last_updated.some
    /\ hc.page_record[1].last_seen_remote_updated_at.some
    /\ hc.remote_page[1].last_updated.t
          > hc.page_record[1].last_seen_remote_updated_at.t

\* C5: has_conflict returns false whenever current_sha equals the hash of the
\* file record, whatever the versions and timestamps of the remote page and of
\* the page record are.
C5_UnchangedHashIsNoConflict ==
    (Called /\ hc.file_record # None /\ ~HashChanged) => hc.result = "False"

\* C5 witness: the hash is unchanged while the remote version is newer and
\* the timestamps could not even be compared; the answer is false.
C5_Witness ==
    /\ Called /\ AllPresent /\ ~HashChanged /\ VersionNewer
    /\ hc.remote_page[1].last_updated.some
    /\ hc.page_record[1].last_seen_remote_updated_at.some
    /\ hc.remote_page[1].last_updated.aware
    /\ ~hc.page_record[1].last_seen_remote_updated_at.aware
    /\ hc.result = "False"

\* C6: with the three records present, a changed hash and a remote version
\* above the last-seen version, has_conflict returns true whatever the
\* timestamps are.
C6_NewerVersionIsConflict ==
    (Called /\ AllPresent /\ HashChanged /\ VersionNewer) => hc.result = "True"

\* C6 witness: true is returned although the remote timestamp is aware, the
\* stored one naive, and the remote one is not later.
C6_Witness ==
    /\ Called /\ AllPresent /\ HashChanged /\ VersionNewer
    /\ hc.remote_page[1].last_updated.some
    /\ hc.page_record[1].last_seen_remote_updated_at.some
    /\ hc.remote_page[1].last_updated.aware
    /\ ~hc.page_record[1].last_seen_remote_updated_at.aware
    /\ ~TimeNewer
    /\ hc.result = "True"

\* C7: with the three records present and a changed hash, has_conflict
\* returns true if the remote version is above the last-seen version or the
\* remote timestamp is later than the last-seen timestamp, and returns false
\* otherwise (an absent version or timestamp is above or later than nothing).
C7_ConflictIffRemoteNewer ==
    (Called /\ AllPresent /\ HashChanged)
        => hc.result = (IF VersionNewer \/ TimeNewer THEN "True" ELSE "False")

\* C8: has_conflict returns false whenever the file record, the page record
\* or the remote page is absent.
C8_AbsentRecordIsNoConflict ==
    (Called /\ ~AllPresent) => hc.result = "False"

\* C8 witness: only the page record is absent, the hash has changed, and the
\* answer is false.
C8_Witness ==
    /\ Called /\ hc.page_record = None
    /\ hc.file_record # None /\ hc.remote_page # None /\ HashChanged
    /\ hc.result = "False"

(***************************************************************************)
(* Properties of the engine (Spec)                                         *)
(***************************************************************************)

\* run() is about to hand the next note to _process_note
Stepping == pc = "running" /\ idx <= Len(notes)

\* the note _process_note is about to work on, the parent it resolves for it
\* and the target page it looks up
Cur == notes[idx]
CurParent == resolve_parent(World, Cur, dry_run)
CurLookup == _lookup_target_page(CurParent.w, Cur, CurParent.id)
CurTarget == CurLookup.page

\* the step appended a plan entry: _process_note returned
Returned == Len(plan') = Len(plan) + 1
NewEntry == plan'[Len(plan')]

\* the requests of the step that write to page_id, or create a page titled
\* title under parent
WritesFor(page_id, title, parent) ==
    {k \in 1..Len(calls') :
        \/ calls'[k].op \in {"update_page", "update_labels", "upload_attachment"}
           /\ calls'[k].page_id = page_id
        \/ calls'[k].op = "create_page"
           /\ calls'[k].title = title /\ calls'[k].parent = parent}

\* the step left alone the file record and the binding of path, the page
\* record of page_id and the remote page page_id
NoteUntouched(path, page_id) ==
    /\ get_file(files', path) = get_file(files, path)
    /\ get_binding_for_path(bindings', path) = get_binding_for_path(bindings, path)
    /\ {r \in pages' : r.page_id = page_id} = {r \in pages : r.page_id = page_id}
    /\ page_id.kind = "page" => remote'[page_id.n] = remote[page_id.n]

Actions(p) == {p[i].action : i \in 1..Len(p)}

C2_DryRunMutatesNothing ==
    [][(pc = "running" /\ dry_run)
         => /\ files' = files /\ pages' = pages /\ bindings' = bindings
            /\ remote' = remote
            /\ \A k \in 1..Len(calls') : calls'[k].op \notin WriteOps]_vars

\* C2 witness: a dry run has completed whose plan holds a CREATE and an UPDATE.
C2_Witness ==
    /\ pc = "done" /\ dry_run
    /\ {"create", "update"} \subseteq Actions(plan)

\* C3: a step in which _process_note returns CONFLICT issues no create-page
\* for the note and no update-page for the target page, and leaves the note's
\* file record, the target's page record and the note's binding as they were.
C3_ConflictWritesNothing ==
    [][(pc = "running" /\ Returned /\ NewEntry.action = "conflict")
         => /\ WritesFor(NewEntry.target_page_id, Cur.title,
                         NewEntry.parent_page_id) = {}
            /\ NoteUntouched(NewEntry.path, NewEntry.target_page_id)]_vars

\* C3 witness: a real run has reported a CONFLICT.
C3_Witness ==
    /\ pc \in {"running", "done"} /\ ~dry_run
    /\ "conflict" \in Actions(plan)

\* the note about to be processed has a file record with another hash, a
\* binding, a page record of the bound page, and the bound page has a version
\* above the last-seen version
LocalAndRemoteChanged ==
    /\ Stepping /\ ~Cur.exclude
    /\ \E f \in files : f.path = Cur.path /\ f.sha256 # Cur.sha256
    /\ \E b \in bindings :
         /\ b.file_path = Cur.path
         /\ b.page_id.n \in 1..Len(remote)
         /\ \E r \in pages :
              /\ r.page_id = b.page_id
              /\ r.last_seen_version # None
              /\ remote[b.page_id.n].version > r.last_seen_version[1]

OnlyLocalChanged ==
    /\ Stepping /\ ~dry_run /\ ~Cur.exclude
    /\ CurTarget # None
    /\ \E f \in files : f.path = Cur.path /\ f.sha256 # Cur.sha256
    /\ \E r \in pages :
         /\ r.page_id = CurTarget[1].page_id
         /\ r.last_seen_version = Some(CurTarget[1].version)
         /\ r.last_seen_remote_updated_at = Strftime(CurTarget[1].last_updated)
    /\ \E b \in bindings :
         b.file_path = Cur.path /\ b.page_id = CurTarget[1].page_id

\* C9: for such a note _process_note returns UPDATE, and update-page is
\* requested exactly once, with the target's version + 1.
C9_LocalChangeIsUpdate ==
    [][OnlyLocalChanged
         => /\ Returned /\ NewEntry.action = "update"
            /\ Cardinality({k \in 1..Len(calls') :
                              calls'[k].op = "update_page"}) = 1
            /\ \E k \in 1..Len(calls') :
                 /\ calls'[k].op = "update_page"
                 /\ calls'[k].page_id = CurTarget[1].page_id
                 /\ calls'[k].version = CurTarget[1].version + 1]_vars

\* the note about to be processed has a target page and a file record with
\* the note's hash
Unchanged ==
    /\ Stepping /\ ~Cur.exclude
    /\ CurTarget # None
    /\ \E f \in files : f.path = Cur.path /\ f.sha256 = Cur.sha256

\* C10: for such a note _process_note returns SKIP; the step issues no write
\* request for the target page, creates no page for the note, and leaves the
\* note's file record and binding and the target's page record as they were.
C10_UnchangedIsSkipped ==
    [][Unchanged
         => /\ Returned /\ NewEntry.action = "skip"
            /\ NewEntry.path = Cur.path
            /\ NewEntry.reason = "No changes detected"
            /\ WritesFor(CurTarget[1].page_id, Cur.title, CurParent.id) = {}
            /\ NoteUntouched(Cur.path, CurTarget[1].page_id)]_vars

\* C10 witness: a real run has skipped an unchanged note whose page has a
\* newer version than the one last seen.
C10_Witness ==
    /\ pc \in {"running", "done"} /\ ~dry_run
    /\ \E i \in 1..Len(plan), r \in pages :
         /\ plan[i].action = "skip" /\ plan[i].reason = "No changes detected"
         /\ r.page_id = plan[i].target_page_id
         /\ remote[r.page_id.n].version > r.last_seen_version[1]

\* the note about to be processed has no page_id override and no binding,
\* and no remote page carries its title under the parent resolved for it
FirstTime ==
    /\ Stepping /\ ~Cur.exclude
    /\ Cur.page_id = NoId
    /\ get_binding_for_path(bindings, Cur.path) = None
    /\ ~\E n \in 1..Len(CurParent.w.remote) :
          /\ CurParent.w.remote[n].title = Cur.title
          /\ CurParent.w.remote[n].parent = CurParent.id

\* C11: for such a note _process_note returns CREATE with the labels the
\* note declares and the parent resolved for its chain; when the note
\* declares a parent, that parent is the page resolved for the declared
\* title directly under the root.
C11_FirstSyncIsCreate ==
    [][FirstTime
         => /\ Returned /\ NewEntry.action = "create"
            /\ NewEntry.path = Cur.path
            /\ NewEntry.labels = Cur.labels
            /\ NewEntry.parent_page_id = CurParent.id
            /\ Cur.parent # ""
                 => [title |-> Cur.parent,
                     parent_id |-> root_page'[1].page_id,
                     page_id |-> NewEntry.parent_page_id] \in cache']_vars

\* C11 witness: a real run on an empty space has planned CREATE for the note
\* with labels and for the note that declares the parent Guides, the latter
\* under a page titled Guides that lies under the root.
C11_Witness ==
    /\ pc = "done" /\ ~dry_run /\ Len(plan) = 2
    /\ plan[1].action = "create" /\ plan[1].labels = <<"docs", "example">>
    /\ plan[2].action = "create" /\ notes[2].parent = "Guides"
    /\ plan[2].parent_page_id.kind = "page"
    /\ remote[plan[2].parent_page_id.n].title = "Guides"
    /\ remote[plan[2].parent_page_id.n].parent = root_page[1].page_id

\* C12: after a step of a real run in which _process_note returns CREATE or
\* UPDATE, the files table holds the note's path with the note's hash, the
\* pages table holds the page written with the version the remote write
\* returned, and the note's path is bound to that page.
C12_WriteIsRecorded ==
    [][(pc = "running" /\ ~dry_run /\ Returned
           /\ NewEntry.action \in {"create", "update"})
         => /\ NewEntry.target_page_id.kind = "page"
            /\ NewEntry.target_page_id.n \in 1..Len(remote')
            /\ get_file(files', Cur.path)
                  = Some([path |-> Cur.path, sha256 |-> Cur.sha256])
            /\ \E r \in pages' :
                  /\ r.page_id = NewEntry.target_page_id
                  /\ r.last_seen_version
                        = Some(remote'[NewEntry.target_page_id.n].version)
            /\ get_binding_for_path(bindings', Cur.path)
                  = Some([file_path |-> Cur.path,
                          page_id |-> NewEntry.target_page_id])]_vars

\* C12 witness: a real run has updated a page that was at version 2 or
\* later, and the page record holds the version written.
C12_Witness ==
    /\ pc \in {"running", "done"} /\ ~dry_run
    /\ \E i \in 1..Len(plan), r \in pages :
         /\ plan[i].action = "update"
         /\ r.page_id = plan[i].target_page_id
         /\ r.last_seen_version = Some(remote[r.page_id.n].version)
         /\ remote[r.page_id.n].version >= 3

(***************************************************************************)
(* The state store called directly, between the runs of the engine         *)
(***************************************************************************)

\* the page ids a caller may pass: those of the pages of the space and one
\* the space does not hold (the store does not check them)
StoreIds == {RealId(n) : n \in 1..(Len(remote) + 1)}

StorePaths == {vault[i].path : i \in 1..Len(vault)}

\* StateStore.set_binding(file_path, page_id)
SetBinding(file_path, page_id) ==
    /\ pc # "running"
    /\ edits < MaxEdits
    /\ LET b == set_binding(bindings, file_path, page_id)
       IN /\ bindings' = b.tbl
          /\ sb' = [op |-> "set_binding", file_path |-> file_path,
                    page_id |-> page_id,
                    raised |-> IF b.ok THEN "" ELSE "IntegrityError"]
    /\ edits' = edits + 1
    /\ stable' = FALSE
    /\ UNCHANGED <<disk, remote, clock, sendsWhen, files, pages, pc, dry_run,
                   notes, idx, cache, root_page, dry_counter, plan,
                   conflict_records, summary, calls, raised, vault, runs,
                   lastReal, prevReal, hc, req, fault, rp, wr, up,
                   lastDry, prevDry>>

\* StateStore.remove_binding(file_path)
RemoveBinding(file_path) ==
    /\ pc # "running"
    /\ edits < MaxEdits
    /\ bindings' = remove_binding(bindings, file_path)
    /\ sb' = [op |-> "remove_binding", file_path |-> file_path,
              page_id |-> NoId, raised |-> ""]
    /\ edits' = edits + 1
    /\ stable' = FALSE
    /\ UNCHANGED <<disk, remote, clock, sendsWhen, files, pages, pc, dry_run,
                   notes, idx, cache, root_page, dry_counter, plan,
                   conflict_records, summary, calls, raised, vault, runs,
                   lastReal, prevReal, hc, req, fault, rp, wr, up,
                   lastDry, prevDry>>

NextStore ==
    \/ \E dry \in BOOLEAN : StartRun(dry)
    \/ ProcessNote
    \/ FinishRun
    \/ \E p \in StorePaths, x \in StoreIds : SetBinding(p, x)
    \/ \E p \in StorePaths : RemoveBinding(p)

\* no note is excluded, and the server sends no version.when (no binding is
\* written from either)
InitStore == Init /\ ~sendsWhen /\ ~vault[2].exclude

SpecStore == InitStore /\ [][NextStore]_vars

\* the step is a call of set_binding(Q, X) while another path P is bound to X
BindsBoundPage ==
    /\ sb'.op = "set_binding" /\ sb' # sb
    /\ \E r \in bindings :
         r.page_id = sb'.page_id /\ r.file_path # sb'.file_path

\* C13: such a call raises nothing, and afterwards X is bound to Q and to no
\* other path, and P is bound to nothing.
C13_SetBindingSupersedes ==
    [][BindsBoundPage
         => /\ sb'.raised = ""
            /\ get_binding_for_page(bindings', sb'.page_id)
                  = Some([file_path |-> sb'.file_path, page_id |-> sb'.page_id])
            /\ \A r \in bindings :
                  (r.page_id = sb'.page_id /\ r.file_path # sb'.file_path)
                     => get_binding_for_path(bindings', r.file_path) = None]_vars

\* C14: in every state each path is bound to at most one page id and each
\* page id is bound to at most one path.
C14_BindingsAreBijective ==
    \A r1, r2 \in bindings :
        (r1.file_path = r2.file_path \/ r1.page_id = r2.page_id) => r1 = r2

\* C14 witness: two paths are bound, and the last direct call of set_binding
\* asked for a page that another path was bound to.
C14_Witness ==
    /\ Cardinality(bindings) = 2
    /\ sb.op = "set_binding" /\ sb.raised = "IntegrityError"

(***************************************************************************)
(* Runs of the engine against a server that fails some requests            *)
(***************************************************************************)
Faults == {{"find"}, {"create"}, {"update"}}

\* between two runs the server starts to fail the requests of f, or
\* recovers (f = NoFault)
ServerFault(f) ==
    /\ pc # "running"
    /\ edits < MaxEdits
    /\ fault # f
    /\ fault' = f
    /\ edits' = edits + 1
    /\ stable' = FALSE
    /\ UNCHANGED <<disk, remote, clock, sendsWhen, files, pages, bindings, pc,
                   dry_run, notes, idx, cache, root_page, dry_counter, plan,
                   conflict_records, summary, calls, raised, vault, runs,
                   lastReal, prevReal, hc, sb, req, rp, wr, up, lastDry,
                   prevDry>>

NextFaults ==
    \/ Next
    \/ \E f \in Faults \cup {NoFault} : ServerFault(f)

\* no note is excluded, and the server sends no version.when
InitFaults == Init /\ ~sendsWhen /\ ~vault[2].exclude

SpecFaults == InitFaults /\ [][NextFaults]_vars

\* the request c was failed by the server
Failed(c) ==
    \/ c.op = "find_page" /\ "find" \in fault
    \/ c.op \in {"create_page", "post_root"} /\ "create" \in fault
    \/ c.op = "update_page" /\ "update" \in fault

\* the step is a call of _process_note in which the title search, a
\* create-page or an update-page request failed
RemoteErrorInStep ==
    /\ Stepping
    /\ calls' # <<>> /\ Failed(calls'[Len(calls')])

\* C15: after such a step run() is still running: it has an outcome for the
\* note that names the error, and goes on with the next note; so every run
\* that was started ends with one outcome per note.
C15_RemoteErrorIsIsolated ==
    [][RemoteErrorInStep
         => /\ pc' = "running"
            /\ Returned
            /\ idx' = idx + 1]_vars

\* the number of plan entries with the action a
CountOf(a) == Cardinality({i \in 1..Len(plan) : plan[i].action = a})

\* C16: when a run has completed, real or dry, the plan holds one entry for
\* each scanned note, excluded or not, in the order of the scanned notes,
\* which is the order of their sorted paths.
C16_OneEntryPerNote ==
    pc = "done"
      => /\ Len(plan) = Len(notes)
         /\ \A i \in 1..Len(plan) : plan[i].path = notes[i].path
         /\ \A i, j \in 1..Len(plan) :
               i < j => PathRank(plan[i].path) < PathRank(plan[j].path)

\* C16 witness: a dry run over a vault with an excluded note has completed.
C16_Witness ==
    /\ pc = "done" /\ dry_run
    /\ Len(notes) = 2 /\ notes[2].exclude
    /\ plan[2].action = "skip"

\* C17: when a run has completed, each counter of the summary is the number
\* of plan entries with its action, the four counters add up to the number
\* of notes, and the conflict list holds exactly one record for each plan
\* entry with action CONFLICT and none for the others.
C17_SummaryCountsThePlan ==
    pc = "done"
      => /\ summary.created = CountOf("create")
         /\ summary.updated = CountOf("update")
         /\ summary.skipped = CountOf("skip")
         /\ summary.conflicts = CountOf("conflict")
         /\ summary.created + summary.updated + summary.skipped
               + summary.conflicts = Len(notes)
         /\ Len(conflict_records) = CountOf("conflict")
         /\ \A i \in 1..Len(plan) :
               Cardinality({k \in 1..Len(conflict_records) :
                              conflict_records[k].file_path = plan[i].path})
                 = (IF plan[i].action = "conflict" THEN 1 ELSE 0)

\* C17 witness: a run has completed with a CONFLICT and another action.
C17_Witness ==
    /\ pc = "done"
    /\ summary.conflicts = 1
    /\ summary.created + summary.updated + summary.skipped = 1

(***************************************************************************)
(* app/client.py: one call of ConfluenceClient._request, attempt by        *)
(* attempt.  Each attempt is one _send_request; what session.request does  *)
(* is the environment's choice: it raises a requests.RequestException (no  *)
(* response), or returns a response with a status code.  The waiting       *)
(* between two attempts is not modelled.                                   *)
(***************************************************************************)

\* Retrying(stop=stop_after_attempt(5), ...)
stop_after_attempt == 5

NoResponse == [response |-> FALSE, status_code |-> 0]
Response(status_code) == [response |-> TRUE, status_code |-> status_code]

Outcomes ==
    {NoResponse} \cup {Response(c) : c \in {200, 400, 404, 429, 500, 502, 503, 504}}

\* a variant of the operator below: every status from 400 on raises the
\* retryable error
_send_request_all_retryable(o, attempt_number) ==
    IF ~o.response \/ o.status_code >= 400
    THEN Some([kind |-> "ConfluenceRetryableError",
               attempt_number |-> attempt_number, outcome |-> o])
    ELSE None

\* the exception attempt attempt_number raises when session.request ends
\* with o, None when _send_request returns the response
_send_request(o, attempt_number) ==
    IF ~o.response
    THEN Some([kind |-> "ConfluenceRetryableError",
               attempt_number |-> attempt_number, outcome |-> o])
    ELSE IF o.status_code \in {429, 502, 503, 504}
    THEN Some([kind |-> "ConfluenceRetryableError",
               attempt_number |-> attempt_number, outcome |-> o])
    ELSE IF o.status_code >= 400
    THEN Some([kind |-> "ConfluenceError",
               attempt_number |-> attempt_number, outcome |-> o])
    ELSE None

\* a variant of the operator below: every ConfluenceError is retried
retry_if_confluence_error(e) ==
    e.kind \in {"ConfluenceRetryableError", "ConfluenceError", "RequestException"}

\* retry=retry_if_exception_type((ConfluenceRetryableError, RequestException))
retry_if_exception_type(e) ==
    e.kind \in {"ConfluenceRetryableError", "RequestException"}

\* one iteration of the retryer on the call r, whose attempt ends with o: the
\* response is returned; an exception the retry condition does not match is
\* raised as it is; at the last attempt reraise=True raises the exception
\* of that attempt; otherwise the retryer goes on
retryer_attempt(r, o, e) ==
    IF e = None
    THEN [state |-> "returned", outcomes |-> Append(r.outcomes, o), error |-> None]
    ELSE IF ~retry_if_exception_type(e[1])
    THEN [state |-> "raised", outcomes |-> Append(r.outcomes, o), error |-> e]
    ELSE IF Len(r.outcomes) + 1 >= stop_after_attempt
    THEN [state |-> "raised", outcomes |-> Append(r.outcomes, o), error |-> e]
    ELSE [state |-> "sending", outcomes |-> Append(r.outcomes, o), error |-> None]

unchangedByRequest ==
    UNCHANGED <<disk, remote, clock, sendsWhen, files, pages, bindings, pc,
                dry_run, notes, idx, cache, root_page, dry_counter, plan,
                conflict_records, summary, calls, raised, vault, runs, edits,
                stable, lastReal, prevReal, hc, sb, fault, rp, wr, up,
                lastDry, prevDry>>

\* _request is called
StartRequest ==
    /\ req.state = "idle"
    /\ req' = [req EXCEPT !.state = "sending"]
    /\ unchangedByRequest

\* the retryer calls _send_request once more
Attempt(o) ==
    /\ req.state = "sending"
    /\ req' = retryer_attempt(req, o, _send_request(o, Len(req.outcomes) + 1))
    /\ unchangedByRequest

NextRequest ==
    \/ StartRequest
    \/ \E o \in Outcomes : Attempt(o)

InitRequest ==
    /\ vault = <<Note1>>
    /\ disk = <<1>>
    /\ sendsWhen = TRUE
    /\ remote = <<>>
    /\ clock = 0
    /\ InitEngine
    /\ hc = HcIdle

SpecRequest == InitRequest /\ [][NextRequest]_vars

\* the attempt ended with a transport error or a status 429, 502, 503, 504
Transient(o) == ~o.response \/ o.status_code \in {429, 502, 503, 504}

\* the attempt ended with another status from 400 on
Permanent(o) == o.response /\ o.status_code >= 400 /\ ~Transient(o)

Attempts == Len(req.outcomes)

\* C18: a request makes at most 5 attempts; an attempt after the first is
\* made only when the attempt before it failed transiently; an attempt that
\* ends with another status from 400 on ends the request with an error, and
\* so does the fifth attempt when it fails; an attempt that succeeds ends
\* the request with its response.
C18_RetryIsBounded ==
    [][(req'.outcomes # req.outcomes)
         => /\ Len(req'.outcomes) = Attempts + 1
            /\ Len(req'.outcomes) <= 5
            /\ Attempts > 0 => Transient(req.outcomes[Attempts])
            /\ \A k \in 1..Attempts : ~Permanent(req.outcomes[k])
            /\ Permanent(req'.outcomes[Attempts + 1]) => req'.state = "raised"
            /\ (~Transient(req'.outcomes[Attempts + 1])
                  /\ ~Permanent(req'.outcomes[Attempts + 1]))
                 => req'.state = "returned"
            /\ Len(req'.outcomes) = 5 => req'.state \in {"returned", "raised"}
            /\ (Transient(req'.outcomes[Attempts + 1]) /\ Attempts + 1 < 5)
                 => req'.state = "sending"]_vars

\* C18 witness: a request has returned a response at its fifth attempt.
C18_Witness ==
    /\ req.state = "returned" /\ Attempts = 5
    /\ \A k \in 1..4 : Transient(req.outcomes[k])

\* C19: the error a request raises is the error of its last attempt; it is
\* a ConfluenceRetryableError when that attempt failed transiently (so when
\* all five did) and a ConfluenceError that is not retryable when it failed
\* with another status.
C19_LastErrorIsRaised ==
    req.state = "raised"
      => /\ req.error = _send_request(req.outcomes[Attempts], Attempts)
         /\ req.error # None
         /\ req.error[1].attempt_number = Attempts
         /\ req.error[1].outcome = req.outcomes[Attempts]
         /\ Transient(req.outcomes[Attempts])
               => (Attempts = 5 /\ req.error[1].kind = "ConfluenceRetryableError")
         /\ Permanent(req.outcomes[Attempts])
               => req.error[1].kind = "ConfluenceError"

\* C19 witness: five attempts failed transiently, the last with a 503, and
\* the 503 error of the fifth attempt was raised.
C19_Witness ==
    /\ req.state = "raised" /\ Attempts = 5
    /\ \A k \in 1..5 : Transient(req.outcomes[k])
    /\ req.error = Some([kind |-> "ConfluenceRetryableError",
                         attempt_number |-> 5, outcome |-> Response(503)])

(***************************************************************************)
(* The hierarchy cache                                                     *)
(***************************************************************************)

\* the step is the processing of notes[idx]: it returned an entry or raised
ProcessedInStep ==
    /\ pc = "running" /\ idx <= Len(notes)
    /\ idx' = idx + 1 \/ pc' = "crashed"

\* the notes of plan entries i and j have the same title chain
SameChain(i, j) ==
    /\ ~notes[i].exclude /\ ~notes[j].exclude
    /\ title_chain(notes[i]) = title_chain(notes[j])

\* C20: when a note is processed whose title chain names a title that
\* _ensure_page has already resolved under the root of this run, the step
\* issues no find_page and no create_page for that title and parent, the
\* cache keeps the entry, and the parent id of the note's plan entry is the
\* cached id; and in every plan, two notes with the same title chain have
\* the same parent id.
C20_CacheResolvesOnce ==
    [][/\ ProcessedInStep /\ ~notes[idx].exclude /\ root_page # None
          => \A e \in cache :
                (title_chain(notes[idx]) = <<e.title>>
                   /\ e.parent_id = root_page[1].page_id)
                => /\ \A k \in 1..Len(calls') :
                         ~(/\ calls'[k].op \in {"find_page", "create_page"}
                           /\ calls'[k].title = e.title
                           /\ calls'[k].parent = e.parent_id)
                   /\ e \in cache'
                   /\ idx' = idx + 1 => plan'[idx].parent_page_id = e.page_id
       /\ \A i, j \in 1..Len(plan') :
             SameChain(i, j) => plan'[i].parent_page_id = plan'[j].parent_page_id]_vars

\* C20 witness: in a real run two notes of the folder Drafts have been
\* processed; the processing of the second made calls, none of them a
\* find_page or create_page for the folder page, and both entries have the
\* folder page of the cache as parent.
C20_Witness ==
    /\ pc = "running" /\ ~dry_run /\ Len(plan) = 2
    /\ title_chain(notes[1]) = <<"Drafts">> /\ title_chain(notes[2]) = <<"Drafts">>
    /\ ~notes[2].exclude
    /\ calls # <<>>
    /\ \A k \in 1..Len(calls) :
          calls[k].op \in {"find_page", "create_page"} => calls[k].title # "Drafts"
    /\ \E e \in cache : /\ e.title = "Drafts"
                         /\ plan[1].parent_page_id = e.page_id
                         /\ plan[2].parent_page_id = e.page_id

(***************************************************************************)
(* resolve_parent called on its own in dry-run mode, as                    *)
(* test_page_hierarchy_dry_run_uses_synthetic_ids calls it: one            *)
(* PageHierarchyManager, a note of the vault at each call.                 *)
(***************************************************************************)

\* the manager after resolve_parent returned or raised (r), and what it
\* returned for note i
on_resolved(r, i) ==
    /\ remote' = r.w.remote
    /\ clock' = r.w.clock
    /\ files' = r.w.files
    /\ pages' = r.w.pages
    /\ bindings' = r.w.bindings
    /\ cache' = r.w.cache
    /\ root_page' = r.w.root_page
    /\ dry_counter' = r.w.dry_counter
    /\ calls' = r.w.calls
    /\ raised' = r.exc
    /\ rp' = Append(rp, [note |-> i, id |-> r.id])

ResolveParentDry(i) ==
    /\ pc = "idle"
    /\ Len(rp) < MaxResolves
    /\ on_resolved(resolve_parent(World, scan_vault[i], TRUE), i)
    /\ UNCHANGED <<disk, sendsWhen, pc, dry_run, notes, idx, plan,
                   conflict_records, summary, vault, runs, edits, stable,
                   lastReal, prevReal, hc, sb, req, fault, wr, up, lastDry,
                   prevDry>>

NextHierarchy == \E i \in 1..Len(vault) : ResolveParentDry(i)

SpecHierarchy == Init /\ [][NextHierarchy]_vars

\* C21: a call of resolve_parent in dry-run mode issues no request to the
\* server, leaves the files, pages and bindings tables and the space as they
\* were, raises nothing, and returns a synthetic "dryrun-" id; a later call
\* for the same note on the same manager returns the id the earlier one
\* returned.
C21_DryResolveIsLocalAndStable ==
    [][rp' # rp
         => /\ calls' = <<>>
            /\ files' = files /\ pages' = pages /\ bindings' = bindings
            /\ remote' = remote
            /\ raised' = ""
            /\ rp'[Len(rp')].id.kind = "dryrun"
            /\ \A k \in 1..Len(rp) :
                  rp[k].note = rp'[Len(rp')].note => rp[k].id = rp'[Len(rp')].id]_vars

\* C21 witness: resolve_parent was called twice for the note in the folder
\* Drafts, in a space that holds the folder page, and returned the same
\* synthetic id of the folder both times.
C21_Witness ==
    /\ Len(rp) = 2 /\ remote # <<>>
    /\ rp[1].note = 1 /\ rp[2].note = 1
    /\ rp[1].id = rp[2].id
    /\ rp[1].id.kind = "dryrun" /\ rp[1].id.slug = "drafts"

(***************************************************************************)
(* The lookup of the target page.  One note, Drafts/Example.md, is synced  *)
(* against a space that holds the root, the folder page, a page under the  *)
(* folder that carries the note's title or has been renamed, and a second  *)
(* page under the folder.  The note's frontmatter names no page, the       *)
(* second page, or a page that has been deleted; the store binds the note  *)
(* to nothing, to either page under the folder, or to the deleted page.    *)
(***************************************************************************)

\* the id of a page the space no longer has
GoneId == RealId(9)

LookupSpace(sw, title3) ==
    LET at(t) == IF sw THEN Aware(t) ELSE NoTime
    IN << [title |-> RootTitle, parent |-> NoId, version |-> 1, when |-> at(1)],
          [title |-> "Drafts", parent |-> RealId(1), version |-> 1, when |-> at(2)],
          [title |-> title3, parent |-> RealId(2), version |-> 1, when |-> at(3)],
          [title |-> "Archive", parent |-> RealId(2), version |-> 1,
           when |-> at(4)] >>

\* the page record the store keeps of a page it bound at version 1
BoundPageRecord(sw, page_id) ==
    [page_id |-> page_id, title |-> "Example Title",
     parent_page_id |-> RealId(2), last_seen_version |-> Some(1),
     last_seen_remote_updated_at |->
         Strftime(IF sw THEN Aware(page_id.n) ELSE NoTime)]

InitLookup ==
    /\ \E page_id \in {NoId, RealId(4), GoneId} :
          vault = <<[Note1 EXCEPT !.page_id = page_id]>>
    /\ disk = <<1>>
    /\ sendsWhen \in BOOLEAN
    /\ \E title3 \in {"Example Title", "Renamed"} :
          remote = LookupSpace(sendsWhen, title3)
    /\ clock = Len(remote)
    /\ \/ files = {} /\ pages = {} /\ bindings = {}
       \/ \E bound \in {RealId(3), RealId(4), GoneId}, sha256 \in 1..2 :
            /\ files = {[path |-> Note1.path, sha256 |-> sha256]}
            /\ pages = {BoundPageRecord(sendsWhen, bound)}
            /\ bindings = {[file_path |-> Note1.path, page_id |-> bound]}
    /\ pc = "idle" /\ dry_run = FALSE /\ notes = <<>> /\ idx = 1
    /\ cache = {} /\ root_page = None /\ dry_counter = 0
    /\ plan = <<>> /\ conflict_records = <<>> /\ summary = NoSummary
    /\ calls = <<>> /\ raised = ""
    /\ runs = 0 /\ edits = 0
    /\ stable = FALSE /\ lastReal = <<>>
    /\ prevReal = [valid |-> FALSE, actions |-> <<>>]
    /\ sb = SbIdle /\ req = ReqIdle /\ fault = NoFault
    /\ rp = RpIdle /\ wr = WrIdle /\ up = UpIdle
    /\ lastDry = NoDry /\ prevDry = NoDry
    /\ hc = HcIdle

NextLookup ==
    \/ \E dry \in BOOLEAN : StartRun(dry)
    \/ ProcessNote
    \/ FinishRun

SpecLookup == InitLookup /\ [][NextLookup]_vars

\* GET /rest/api/content/{id} answers with the page
Fetchable(rem, page_id) == page_id.kind = "page" /\ page_id.n \in 1..Len(rem)

\* the pages the title search under parent_id returns, in the server's order
TitleMatches(rem, title, parent_id) ==
    {n \in 1..Len(rem) : rem[n].title = title /\ rem[n].parent = parent_id}

CurBinding == get_binding_for_path(bindings, Cur.path)

OverrideFetched == Cur.page_id # NoId /\ Fetchable(CurParent.w.remote, Cur.page_id)

BindingFetched ==
    CurBinding # None /\ Fetchable(CurParent.w.remote, CurBinding[1].page_id)

CurMatches == TitleMatches(CurParent.w.remote, Cur.title, CurParent.id)

\* C22: when _process_note returns an entry for a note that is not excluded,
\* the entry's target is the page of the frontmatter page_id when that page
\* can be fetched; otherwise the bound page when the note has a binding whose
\* page can be fetched; otherwise the first page the title search under the
\* resolved parent returns; and when that search returns nothing the entry
\* is a CREATE (in a dry run with no target page). An entry with a target
\* found in one of these ways is never a CREATE.
C22_LookupPrecedence ==
    [][(Stepping /\ ~Cur.exclude /\ Returned)
         => IF OverrideFetched
            THEN /\ NewEntry.target_page_id = Cur.page_id
                 /\ NewEntry.action # "create"
            ELSE IF BindingFetched
            THEN /\ NewEntry.target_page_id = CurBinding[1].page_id
                 /\ NewEntry.action # "create"
            ELSE IF CurMatches # {}
            THEN /\ NewEntry.target_page_id.kind = "page"
                 /\ NewEntry.target_page_id.n \in CurMatches
                 /\ \A m \in CurMatches : NewEntry.target_page_id.n <= m
                 /\ NewEntry.action # "create"
            ELSE /\ NewEntry.action = "create"
                 /\ dry_run => NewEntry.target_page_id = NoId
                 /\ ~dry_run => NewEntry.target_page_id = RealId(Len(remote'))
                 /\ ~dry_run => Len(remote') = Len(remote) + 1]_vars

\* C22 witness: the frontmatter names the second page under the folder, the
\* store binds the note to the first, which also carries the note's title,
\* and a real run has taken the page of the frontmatter as target.
C22_Witness ==
    /\ pc = "running" /\ ~dry_run /\ runs = 1 /\ Len(plan) = 1
    /\ notes[1].page_id = RealId(4)
    /\ remote[3].title = "Example Title"
    /\ \E r \in pages : r.page_id = RealId(3)
    /\ \E k \in 1..Len(calls) : calls[k].op = "update_page"
                                  /\ calls[k].page_id = RealId(4)
    /\ plan[1].target_page_id = RealId(4)
    /\ plan[1].action = "update"

\* the fetch of the page the frontmatter names fails
OverrideFetchFails ==
    Cur.page_id # NoId /\ ~Fetchable(CurParent.w.remote, Cur.page_id)

\* the page of the frontmatter is not the target and the fetch of the bound
\* page fails
BindingFetchFails ==
    /\ ~OverrideFetched
    /\ CurBinding # None /\ ~Fetchable(CurParent.w.remote, CurBinding[1].page_id)

\* the step issued request a and, right after it, request b
IssuedInTurn(a, b) ==
    \E k \in 1..(Len(calls') - 1) : calls'[k] = a /\ calls'[k + 1] = b

SearchByTitle == Call("find_page", NoId, CurParent.id, Cur.title, 0)

C24_ExcludedNoteIsOnlySkipped ==
    [][(Stepping /\ Cur.exclude)
         => /\ Returned
            /\ NewEntry.action = "skip"
            /\ NewEntry.reason = "Frontmatter exclude flag"
            /\ NewEntry.path = Cur.path
            /\ NewEntry.target_page_id = NoId
            /\ calls' = <<>>
            /\ files' = files /\ pages' = pages /\ bindings' = bindings
            /\ remote' = remote
            /\ cache' = cache /\ root_page' = root_page
            /\ dry_counter' = dry_counter
            /\ conflict_records' = conflict_records
            /\ raised' = ""]_vars

\* C24 witness: a real run has skipped an excluded note whose frontmatter
\* names the parent Guides; no page Guides was looked up or created.
C24_Witness ==
    /\ pc = "running" /\ ~dry_run /\ Len(plan) = 2
    /\ notes[2].exclude /\ notes[2].parent = "Guides"
    /\ plan[2].action = "skip" /\ plan[2].reason = "Frontmatter exclude flag"
    /\ calls = <<>>
    /\ ~\E e \in cache : e.title = "Guides"
    /\ \A n \in 1..Len(remote) : remote[n].title # "Guides"

\* the page record _process_note reads back for the target page
CurPageRecord == state_get_page(CurLookup.w.pages, CurTarget[1].page_id)

\* has_conflict gets as far as comparing the target's last_updated with the
\* last_seen_remote_updated_at of the page record read back from the store
TimestampsCompared ==
    /\ Stepping /\ ~Cur.exclude
    /\ CurParent.exc = "" /\ CurLookup.exc = ""
    /\ CurTarget # None /\ CurPageRecord # None
    /\ \E f \in files : f.path = Cur.path /\ f.sha256 # Cur.sha256
    /\ ~(/\ TruthyInt(CurPageRecord[1].last_seen_version)
          /\ CurTarget[1].version > CurPageRecord[1].last_seen_version[1])
    /\ CurTarget[1].last_updated.some
    /\ CurPageRecord[1].last_seen_remote_updated_at.some

\* C25: whenever has_conflict compares the two timestamps in a run, both are
\* timezone-aware, and the step does not end with the TypeError of the
\* comparison.
C25_TimestampsAreComparable ==
    [][TimestampsCompared
         => /\ CurTarget[1].last_updated.aware
            /\ CurPageRecord[1].last_seen_remote_updated_at.aware
            /\ raised' # "TypeError"]_vars

(***************************************************************************)
(* The store writes of one note, statement by statement.  _create_page and *)
(* _update_page call, after the client returned the page, upsert_file and  *)
(* upsert_page (in _record_state) and then set_binding.  Each opens its    *)
(* own connection and commits when its with block ends, so the store as it *)
(* is between two of them is what another connection reads and what an     *)
(* abrupt stop leaves behind.                                              *)
(***************************************************************************)

unchangedByWrite ==
    UNCHANGED <<disk, sendsWhen, pc, dry_run, notes, idx, cache, root_page,
                dry_counter, plan, conflict_records, summary, calls, vault,
                runs, edits, stable, lastReal, prevReal, hc, sb, req, fault,
                rp, up, lastDry, prevDry>>

\* _create_page up to the return of client.create_page (c), for a note the
\* store has no binding of
on_page_created(c, note) ==
    /\ remote' = c.w.remote
    /\ clock' = c.w.clock
    /\ wr' = [stage |-> "returned", path |-> note.path, sha256 |-> note.sha256,
              page |-> c.page]

CreateReturns(i) ==
    /\ pc = "idle" /\ wr.stage = "idle"
    /\ get_binding_for_path(bindings, scan_vault[i].path) = None
    /\ on_page_created(create_page(World, scan_vault[i].title, NoId,
                                   scan_vault[i].labels),
                       scan_vault[i])
    /\ UNCHANGED <<files, pages, bindings, raised>>
    /\ unchangedByWrite

\* _update_page up to the return of client.update_page (u), for a note that
\* was edited since its file record was written
on_page_updated(u, note) ==
    /\ remote' = u.w.remote
    /\ clock' = u.w.clock
    /\ wr' = [stage |-> "returned", path |-> note.path, sha256 |-> note.sha256,
              page |-> u.page]

UpdateReturns(i) ==
    /\ pc = "idle" /\ wr.stage = "idle"
    /\ \E b \in bindings, f \in files :
          /\ b.file_path = scan_vault[i].path
          /\ f.path = scan_vault[i].path /\ f.sha256 # scan_vault[i].sha256
          /\ on_page_updated(update_page(World, b.page_id, scan_vault[i].title,
                                         NoId, scan_vault[i].labels,
                                         remote[b.page_id.n].version + 1),
                             scan_vault[i])
    /\ UNCHANGED <<files, pages, bindings, raised>>
    /\ unchangedByWrite

\* _record_state: self.state.upsert_file(...)
WriteFile ==
    /\ wr.stage = "returned"
    /\ files' = upsert_file(files, wr.path, wr.sha256)
    /\ wr' = [wr EXCEPT !.stage = "file"]
    /\ UNCHANGED <<remote, clock, pages, bindings, raised>>
    /\ unchangedByWrite

\* _record_state: self.state.upsert_page(...)
WritePage ==
    /\ wr.stage = "file"
    /\ pages' = record_page(pages, wr.page)
    /\ wr' = [wr EXCEPT !.stage = "page"]
    /\ UNCHANGED <<remote, clock, files, bindings, raised>>
    /\ unchangedByWrite

\* self.state.set_binding(note.relative_path, remote_page.page_id)
WriteBinding ==
    /\ wr.stage = "page"
    /\ bindings' = set_binding(bindings, wr.path, wr.page.page_id).tbl
    /\ raised' = IF set_binding(bindings, wr.path, wr.page.page_id).ok
                 THEN "" ELSE "IntegrityError"
    /\ wr' = WrIdle
    /\ UNCHANGED <<remote, clock, files, pages>>
    /\ unchangedByWrite

NextWrites ==
    \/ \E i \in 1..Len(vault) : CreateReturns(i)
    \/ \E i \in 1..Len(vault) : UpdateReturns(i)
    \/ WriteFile
    \/ WritePage
    \/ WriteBinding
    \/ \E i \in 1..Len(vault) : /\ wr.stage = "idle"
                                  /\ EditNote(i)

SpecWrites == Init /\ [][NextWrites]_vars

\* C26: in no state another connection can read does the store hold the
\* file record of a note with the note's current hash while the page record
\* of the page written for the note, or the note's binding to it, is not
\* (yet) in the store.
C26_NoPartialWriteIsObservable ==
    \A f \in files :
       (wr.stage # "idle" /\ f.path = wr.path /\ f.sha256 = wr.sha256)
         => /\ \E r \in pages : /\ r.page_id = wr.page.page_id
                                  /\ r.last_seen_version = Some(wr.page.version)
            /\ \E b \in bindings : /\ b.file_path = wr.path
                                     /\ b.page_id = wr.page.page_id

(***************************************************************************)
(* Runs that are stopped between two notes                                 *)
(***************************************************************************)

\* the process is stopped while run() is between two calls of _process_note
\* (or before the first, or after the last)
AbortRun ==
    /\ pc = "running"
    /\ pc' = "stopped"
    /\ stable' = (stable /\ dry_run)
    /\ UNCHANGED <<remote, clock, files, pages, bindings, dry_run, notes, idx,
                   cache, root_page, dry_counter, plan, conflict_records,
                   summary, calls, raised, runs, lastReal, prevReal, lastDry,
                   prevDry>>
    /\ unchangedEnv

NextAbort ==
    \/ \E dry \in BOOLEAN : StartRun(dry)
    \/ ProcessNote
    \/ FinishRun
    \/ AbortRun
    \/ \E i \in 1..Len(vault) : EditNote(i)

\* every note of the vault is synced
InitAbort == Init /\ ~vault[2].exclude

SpecAbort == InitAbort /\ [][NextAbort]_vars

\* C27: every binding in the store names a path that has a file record and a
\* page that has a page record, in every state between the notes of a run
\* and after every run, completed, stopped or ended by an exception.
C27_BindingsReferToRecords ==
    \A b \in bindings :
       /\ get_file(files, b.file_path) # None
       /\ state_get_page(pages, b.page_id) # None

\* C27 witness: a real run was stopped after it had created and bound the
\* page of the first note and before it processed the second.
C27_Witness ==
    /\ pc = "stopped" /\ ~dry_run
    /\ Len(notes) = 2 /\ idx = 2 /\ Len(plan) = 1
    /\ plan[1].action = "create"
    /\ \E b \in bindings : b.file_path = notes[1].path
                             /\ b.page_id = plan[1].target_page_id
    /\ get_binding_for_path(bindings, notes[2].path) = None

(***************************************************************************)
(* The upserts of the store called directly: upsert_file, upsert_page and  *)
(* set_binding on a store that earlier calls have filled, and each call    *)
(* made a second time with the same values.                                *)
(***************************************************************************)
UpsertPaths == {"Drafts/Example.md", "Notes.md"}

UpsertPages ==
    {[page_id |-> RealId(n), title |-> title, parent_page_id |-> parent,
      version |-> version, last_updated |-> last_updated] :
        n \in 1..2, title \in {"Example Title", "Other"},
        parent \in {NoId, RealId(1)}, version \in 1..2,
        last_updated \in {NoTime, Aware(1)}}

unchangedByUpsert ==
    UNCHANGED <<disk, remote, clock, sendsWhen, pc, dry_run, notes, idx, cache,
                root_page, dry_counter, plan, conflict_records, summary, calls,
                vault, runs, stable, lastReal, prevReal, hc, sb, req, fault,
                rp, wr, lastDry, prevDry>>

\* the store after the call up of an upsert
Upserted(u) ==
    /\ files' = IF u.op = "upsert_file"
                THEN upsert_file(files, u.path, u.sha256) ELSE files
    /\ pages' = IF u.op = "upsert_page"
                THEN record_page(pages, u.page) ELSE pages
    /\ bindings' = IF u.op = "set_binding"
                   THEN set_binding(bindings, u.path, u.page.page_id).tbl
                   ELSE bindings
    /\ raised' = IF /\ u.op = "set_binding"
                    /\ ~set_binding(bindings, u.path, u.page.page_id).ok
                 THEN "IntegrityError" ELSE ""

UpsertFile(path, sha256) ==
    /\ edits < MaxEdits
    /\ up' = [op |-> "upsert_file", path |-> path, sha256 |-> sha256,
              page |-> NoPage, times |-> 1]
    /\ Upserted(up')
    /\ edits' = edits + 1
    /\ unchangedByUpsert

UpsertPage(page) ==
    /\ edits < MaxEdits
    /\ up' = [op |-> "upsert_page", path |-> "", sha256 |-> 0, page |-> page,
              times |-> 1]
    /\ Upserted(up')
    /\ edits' = edits + 1
    /\ unchangedByUpsert

UpsertBinding(path, page_id) ==
    /\ edits < MaxEdits
    /\ up' = [op |-> "set_binding", path |-> path, sha256 |-> 0,
              page |-> [NoPage EXCEPT !.page_id = page_id], times |-> 1]
    /\ Upserted(up')
    /\ edits' = edits + 1
    /\ unchangedByUpsert

\* the last call is made once more with the same values
UpsertAgain ==
    /\ up.times = 1
    /\ up' = [up EXCEPT !.times = 2]
    /\ Upserted(up')
    /\ UNCHANGED edits
    /\ unchangedByUpsert

NextUpsert ==
    \/ \E path \in UpsertPaths, sha256 \in 1..2 : UpsertFile(path, sha256)
    \/ \E page \in UpsertPages : UpsertPage(page)
    \/ \E path \in UpsertPaths, n \in 1..2 : UpsertBinding(path, RealId(n))
    \/ UpsertAgain

\* a new store
InitUpsert == InitRequest

SpecUpsert == InitUpsert /\ [][NextUpsert]_vars

\* C28: the second of two calls of upsert_file, upsert_page or set_binding
\* with the same values leaves every table as the first call left it, so
\* get_file, get_page, get_binding_for_path, get_binding_for_page and
\* list_files answer as before; when the first set_binding raised, so does
\* the second.
C28_UpsertsAreIdempotent ==
    [][up'.times = 2
         => /\ files' = files /\ pages' = pages /\ bindings' = bindings
            /\ \A path \in UpsertPaths :
                  /\ get_file(files', path) = get_file(files, path)
                  /\ get_binding_for_path(bindings', path)
                       = get_binding_for_path(bindings, path)
            /\ \A n \in 1..2 :
                  /\ state_get_page(pages', RealId(n))
                       = state_get_page(pages, RealId(n))
                  /\ get_binding_for_page(bindings', RealId(n))
                       = get_binding_for_page(bindings, RealId(n))
            /\ raised' = raised]_vars

\* C28 witness: upsert_page has been called twice with the same values on a
\* page the store already held with another version.
C28_Witness ==
    /\ up.op = "upsert_page" /\ up.times = 2 /\ edits = 2
    /\ up.page.version = 2 /\ up.page.last_updated = Aware(1)
    /\ Cardinality(pages) = 1
    /\ \E r \in pages : r.page_id = up.page.page_id
                          /\ r.last_seen_version = Some(2)

(***************************************************************************)
(* Dry runs compared with the run that follows on the same vault, store    *)
(* and space                                                               *)
(***************************************************************************)

\* C29: when a real run completes that started on the vault, store and
\* space a completed dry run ran on, its plan gives every note the action
\* the dry run's plan gave it.
C29_DryPlanIsFaithful ==
    (pc = "done" /\ ~dry_run /\ prevDry.valid)
        => /\ Len(plan) = Len(prevDry.plan)
           /\ \A i \in 1..Len(plan) : plan[i].action = prevDry.plan[i].action

\* C30: a dry run that starts on the vault, store and space a completed dry
\* run ran on, each with a new engine, completes as well and returns the
\* same plan: the same notes in the same order, each with the same action,
\* target page id, parent page id and labels.
C30_DryRunsAreReproducible ==
    (pc \in {"done", "crashed"} /\ dry_run /\ prevDry.valid)
        => /\ pc = "done"
           /\ plan = prevDry.plan

\* a second dry run has completed on the state of the first one, and its
\* plan creates a page under a parent that only has a synthetic id
C30_Witness ==
    /\ pc = "done" /\ dry_run /\ prevDry.valid
    /\ \E i \in 1..Len(plan) :
           /\ plan[i].action = "create"
           /\ plan[i].parent_page_id.kind = "dryrun"

(***************************************************************************)
(* Conflicts from one run to the next                                      *)
(***************************************************************************)

\* a vault in which the page of a note is the folder page of another note:
\* Notes.md, at the vault root, carries the title of the folder Drafts
InitShared ==
    /\ vault = <<Note1, Note2("root", "Drafts", FALSE, NoId)>>
    /\ disk = [i \in 1..Len(vault) |-> 1]
    /\ sendsWhen \in BOOLEAN
    /\ remote \in {<<>>, ExistingSpace(sendsWhen)}
    /\ clock = Len(remote)
    /\ InitEngine
    /\ hc = HcIdle

SpecShared == InitShared /\ [][Next]_vars

\* C31: when a run completes, every note that a completed run before it
\* reported as CONFLICT, with no edit of a note or of a remote page since
\* that run, is reported as CONFLICT again: after a dry run that ran on the
\* same vault, store and space, and after a real run with nothing changed
\* since, whether the run that completes is dry or real.
C31_ConflictStaysConflict ==
    pc = "done"
        => /\ prevDry.valid
                => \A i \in 1..Len(prevDry.plan) :
                      prevDry.plan[i].action = "conflict"
                         => i <= Len(plan) /\ plan[i].action = "conflict"
           /\ (dry_run /\ stable)
                => \A i \in 1..Len(lastReal) :
                      lastReal[i] = "conflict"
                         => i <= Len(plan) /\ plan[i].action = "conflict"
           /\ (~dry_run /\ prevReal.valid)
                => \A i \in 1..Len(prevReal.actions) :
                      prevReal.actions[i] = "conflict"
                         => i <= Len(plan) /\ plan[i].action = "conflict"

(***************************************************************************)
(* The chain of ancestors: a vault with a note two folders deep, which     *)
(* may declare a parent, and possibly a note at the vault root that        *)
(* declares the parent Guides                                              *)
(***************************************************************************)
DeepNote(parent) ==
    [path |-> "Drafts/Guides/Deep.md", folders |-> <<"Drafts", "Guides">>,
     title |-> "Other", parent |-> parent, exclude |-> FALSE,
     page_id |-> NoId, labels |-> <<>>, images |-> 0]

InitChain ==
    /\ \/ \E parent \in {"", "Guides"} : vault = <<Note1, DeepNote(parent)>>
       \/ vault = <<Note1, DeepNote(""), Note2("parent", "Other", FALSE, NoId)>>
    /\ disk = [i \in 1..Len(vault) |-> 1]
    /\ sendsWhen \in BOOLEAN
    /\ remote \in {<<>>, ExistingSpace(sendsWhen)}
    /\ clock = Len(remote)
    /\ InitEngine
    /\ hc = HcIdle

NextChain ==
    \/ \E dry \in BOOLEAN : StartRun(dry)
    \/ ProcessNote
    \/ FinishRun

SpecChain == InitChain /\ [][NextChain]_vars

\* the chain the claim describes for a note
DeclaredChain(note) ==
    IF note.parent # "" THEN <<note.parent>> ELSE note.folders

\* the manager's cache leads from the id from to the id to along chain: each
\* title is cached as a child of the id resolved before it
RECURSIVE CachedAlong(_, _, _, _)
CachedAlong(c, from, chain, to) ==
    IF chain = <<>> THEN to = from
    ELSE \E e \in c :
            /\ e.title = Head(chain) /\ e.parent_id = from
            /\ CachedAlong(c, e.page_id, Tail(chain), to)

\* the space leads from the page from to the page to along chain: each page
\* carries its title and lies under the page before it
RECURSIVE PagesAlong(_, _, _, _)
PagesAlong(rem, from, chain, to) ==
    IF chain = <<>> THEN to = from
    ELSE \E n \in 1..Len(rem) :
            /\ rem[n].title = Head(chain) /\ rem[n].parent = from
            /\ PagesAlong(rem, RealId(n), Tail(chain), to)

\* C32: when _process_note returns for a note that is not excluded, the
\* parent in its plan entry is reached from the root page id along the
\* note's chain - the declared parent alone, or else its folders in order -
\* each title resolved as a child of the id resolved before it; with an
\* empty chain the parent is the root page id. In a real run the pages of
\* the space lie along the same chain.
C32_ParentFollowsChain ==
    [][(Stepping /\ ~Cur.exclude /\ Returned)
         => /\ root_page' # None
            /\ CachedAlong(cache', root_page'[1].page_id, DeclaredChain(Cur),
                           NewEntry.parent_page_id)
            /\ ~dry_run
                 => PagesAlong(remote', root_page'[1].page_id,
                               DeclaredChain(Cur), NewEntry.parent_page_id)]_vars

\* C32 witness: a real run has completed; the note two folders deep lies
\* under Guides under Drafts under the root, or, when it declares the parent
\* Guides, under Guides under the root.
C32_Witness ==
    /\ pc = "done" /\ ~dry_run /\ Len(plan) = 2
    /\ plan[2].parent_page_id.kind = "page"
    /\ remote[plan[2].parent_page_id.n].title = "Guides"
    /\ LET up1 == remote[plan[2].parent_page_id.n].parent
       IN IF notes[2].parent = ""
          THEN /\ remote[up1.n].title = "Drafts"
               /\ remote[up1.n].parent = root_page[1].page_id
          ELSE up1 = root_page[1].page_id

(***************************************************************************)
(* The root page (Spec)                                                    *)
(***************************************************************************)

\* the requests of the step that ensure_root_page makes or is
RootCalls ==
    {k \in 1..Len(calls') : calls'[k].op \in {"ensure_root_page", "post_root"}}

\* C33: in a step of a real run, when the manager has no root page yet the
\* client's ensure_root_page is called once, the page it returns is kept by
\* the manager and is in the pages table with its title and version; when
\* the manager has a root page the step makes no ensure_root_page request
\* and the manager keeps the same page.
C33_RootIsResolvedOnce ==
    [][(Stepping /\ ~dry_run /\ ~Cur.exclude)
         => IF root_page = None
            THEN /\ Cardinality({k \in RootCalls :
                                   calls'[k].op = "ensure_root_page"}) = 1
                 /\ root_page' # None
                 /\ \E r \in pages' :
                       /\ r.page_id = root_page'[1].page_id
                       /\ r.title = root_page'[1].title
                       /\ r.last_seen_version = Some(root_page'[1].version)
            ELSE /\ RootCalls = {}
                 /\ root_page' = root_page]_vars

\* C33 witness: a real run has processed its second note, neither excluded,
\* and the step of the second note made requests, none of them for the root.
C33_Witness ==
    /\ pc = "running" /\ ~dry_run /\ idx = 3
    /\ ~notes[1].exclude /\ ~notes[2].exclude
    /\ root_page # None
    /\ calls # <<>>
    /\ \A k \in 1..Len(calls) :
          calls[k].op \notin {"ensure_root_page", "post_root"}
    /\ \E r \in pages : r.page_id = root_page[1].page_id

(***************************************************************************)
(* Folder pages (Spec)                                                     *)
(***************************************************************************)

\* the requests of the step with the given operation, title and parent
CallsFor(op, title, parent) ==
    {k \in 1..Len(calls') :
        /\ calls'[k].op = op
        /\ calls'[k].title = title /\ calls'[k].parent = parent}

\* the space held a page with the title under the parent before the step
Existed(title, parent) ==
    \E n \in 1..Len(remote) :
        remote[n].title = title /\ remote[n].parent = parent

\* C34: in a step of a real run, every key (title, parent id) that enters
\* the cache below the root was searched with find-page under that parent;
\* a page was created for it, once and after the search, exactly when the
\* space held no such page; the id cached is in the pages table with the
\* title and the parent. For a key already cached the step creates no page,
\* and no step asks twice for the creation of the same title under the same
\* parent.
C34_FolderPageIsFoundOrCreatedOnce ==
    [][(Stepping /\ ~dry_run /\ ~Cur.exclude)
         => /\ \A e \in cache' \ cache :
                  e.parent_id # NoId
                    => /\ CallsFor("find_page", e.title, e.parent_id) # {}
                       /\ Cardinality(CallsFor("create_page", e.title,
                                                e.parent_id))
                             = (IF Existed(e.title, e.parent_id) THEN 0 ELSE 1)
                       /\ \A k \in CallsFor("create_page", e.title, e.parent_id) :
                             \E j \in CallsFor("find_page", e.title, e.parent_id) :
                                j < k
                       /\ \E r \in pages' :
                             /\ r.page_id = e.page_id
                             /\ r.title = e.title
                             /\ r.parent_page_id = e.parent_id
            /\ \A e \in cache :
                  CallsFor("create_page", e.title, e.parent_id) = {}
            /\ \A k1, k2 \in 1..Len(calls') :
                  (/\ calls'[k1].op = "create_page"
                   /\ calls'[k2].op = "create_page"
                   /\ calls'[k1].title = calls'[k2].title
                   /\ calls'[k1].parent = calls'[k2].parent) => k1 = k2]_vars

\* C34 witness: the first real run, on an empty space, created the folder
\* page Drafts for its first note; the step of the second note, which lies
\* in the same folder, made requests but neither searched nor created it.
C34_Witness ==
    /\ pc = "running" /\ ~dry_run /\ idx = 3 /\ runs = 1
    /\ plan[1].action = "create"
    /\ ~notes[2].exclude /\ notes[2].folders = <<"Drafts">>
    /\ calls # <<>>
    /\ \A k \in 1..Len(calls) : calls[k].title # "Drafts"
    /\ \E e \in cache, r \in pages :
          e.title = "Drafts" /\ r.page_id = e.page_id

(***************************************************************************)
(* Synthetic ids (SpecChain)                                               *)
(***************************************************************************)

\* C35: in a dry run every id in the manager's cache, the root's included,
\* is a synthetic id whose number is one the counter has passed; no two
\* keys of the cache share a number, hence an id; and the counter has
\* advanced by one for every id synthesized.
C35_SyntheticIdsAreDistinct ==
    dry_run
        => /\ \A e \in cache :
                 e.page_id.kind = "dryrun" /\ e.page_id.n \in 1..dry_counter
           /\ \A e1, e2 \in cache :
                 e1.page_id.n = e2.page_id.n => e1 = e2
           /\ Cardinality(cache) = dry_counter
           /\ root_page # None
                 => \E e \in cache : e.page_id = root_page[1].page_id

\* C35 witness: a dry run has completed whose cache holds the title Guides
\* under two parents, with two ids, next to the root and Drafts.
C35_Witness ==
    /\ pc = "done" /\ dry_run /\ dry_counter = 4
    /\ \E e1, e2 \in cache :
          /\ e1.title = "Guides" /\ e2.title = "Guides"
          /\ e1.parent_id # e2.parent_id
          /\ e1.page_id # e2.page_id

(***************************************************************************)
(* The page record of the target (Spec)                                    *)
(***************************************************************************)

\* the rows of the pages table for page_id
RowsOf(tbl, page_id) == {r \in tbl : r.page_id = page_id}

\* the pages table holds for page_id the version and the timestamp the page
\* has in the space rem
RecordIsCurrent(tbl, rem, page_id) ==
    \E r \in tbl :
        /\ r.page_id = page_id
        /\ r.last_seen_version = Some(rem[page_id.n].version)
        /\ r.last_seen_remote_updated_at = Strftime(rem[page_id.n].when)

\* C36 as claimed: after a step in which _process_note fetched a target page
\* and returned, the pages table holds for that page the version and the
\* timestamp the page has, whatever the outcome.
C36_FetchedPageIsRecorded ==
    [][(Stepping /\ ~Cur.exclude /\ Returned /\ CurTarget # None)
         => RecordIsCurrent(pages', remote', CurTarget[1].page_id)]_vars

\* C36 as amended: after such a step the pages table holds for the target
\* the version and the timestamp of the page as written when the step is
\* one of a real run with the outcome UPDATE; when the outcome is SKIP or
\* CONFLICT, and in a dry run, the rows of the target are what they were
\* before the step.
C36_WrittenPageIsRecorded ==
    [][(Stepping /\ ~Cur.exclude /\ Returned /\ CurTarget # None)
         => IF ~dry_run /\ NewEntry.action = "update"
            THEN /\ NewEntry.target_page_id = CurTarget[1].page_id
                 /\ RecordIsCurrent(pages', remote', CurTarget[1].page_id)
                 /\ remote'[CurTarget[1].page_id.n].version
                       = CurTarget[1].version + 1
            ELSE /\ RowsOf(pages', CurTarget[1].page_id)
                       = RowsOf(pages, CurTarget[1].page_id)
                 /\ remote' = remote]_vars

\* C36 witness: a real run has completed with CONFLICT for a note whose
\* page record holds a version below the one fetched, while the record of
\* the page written for the other note holds the version written.
C36_Witness ==
    /\ pc = "done" /\ ~dry_run
    /\ \E i \in 1..Len(plan), b \in bindings :
          /\ plan[i].action = "conflict"
          /\ \E r \in pages :
                /\ r.page_id = plan[i].target_page_id
                /\ r.last_seen_version[1] < remote[r.page_id.n].version
          /\ b.page_id # plan[i].target_page_id
          /\ b.file_path # plan[i].path
          /\ RecordIsCurrent(pages, remote, b.page_id)

(***************************************************************************)
(* The first sync of a note (Spec)                                         *)
(***************************************************************************)

\* C37: in a step on a note that has no file record and for which a target
\* page resolves, _process_note returns UPDATE for that page, never
\* CONFLICT; in a real run the step requests update-page for the target
\* with the fetched version + 1.
C37_FirstSyncOverwrites ==
    [][(Stepping /\ ~Cur.exclude /\ get_file(files, Cur.path) = None
           /\ CurTarget # None)
         => /\ Returned
            /\ NewEntry.action = "update"
            /\ NewEntry.target_page_id = CurTarget[1].page_id
            /\ ~dry_run
                 => \E k \in 1..Len(calls') :
                       /\ calls'[k].op = "update_page"
                       /\ calls'[k].page_id = CurTarget[1].page_id
                       /\ calls'[k].version = CurTarget[1].version + 1]_vars

(***************************************************************************)
(* One page, one note (Spec)                                               *)
(***************************************************************************)

\* C38: no step of a real run requests update-page for a page that the
\* bindings table binds to a path other than the note being processed, and
\* no page is the target of a CREATE or UPDATE entry of two notes of the
\* plan.
C38_PageIsWrittenForOneNote ==
    [][(Stepping /\ ~dry_run)
         => /\ \A k \in 1..Len(calls') :
                  calls'[k].op = "update_page"
                    => \A b \in bindings :
                          b.page_id = calls'[k].page_id
                             => b.file_path = Cur.path
            /\ \A i, j \in 1..Len(plan') :
                  (/\ plan'[i].action \in {"create", "update"}
                   /\ plan'[j].action \in {"create", "update"}
                   /\ plan'[i].target_page_id = plan'[j].target_page_id)
                     => i = j]_vars

(***************************************************************************)
(* Runs on a space nobody else edits: notes are edited between the runs,   *)
(* pages are written by the engine only                                    *)
(***************************************************************************)
NextLocal ==
    \/ \E dry \in BOOLEAN : StartRun(dry)
    \/ ProcessNote
    \/ FinishRun
    \/ \E i \in 1..Len(vault) : EditNote(i)

SpecLocal == Init /\ [][NextLocal]_vars

\* C39: when nobody but the engine writes to the space, a step of a real
\* run on a note that has a file record - written by the real run that
\* created or updated its page - and whose content has changed since does
\* not return CONFLICT and adds no conflict record.
C39_OwnWriteIsNoConflict ==
    [][(Stepping /\ ~dry_run /\ ~Cur.exclude
           /\ \E f \in files : f.path = Cur.path /\ f.sha256 # Cur.sha256)
         => /\ ~(Returned /\ NewEntry.action = "conflict")
            /\ conflict_records' = conflict_records]_vars

\* C39 witness: a real run has updated, for a note edited after its last
\* sync, a page that the engine had written before (the page is at version
\* 3 or later, and bound to the note).
C39_Witness ==
    /\ pc \in {"running", "done"} /\ ~dry_run
    /\ \E i \in 1..Len(plan) :
          /\ plan[i].action = "update"
          /\ disk[i] > 1
          /\ get_file(files, plan[i].path)
                = Some([path |-> plan[i].path, sha256 |-> disk[i]])
          /\ get_binding_for_path(bindings, plan[i].path)
                = Some([file_path |-> plan[i].path,
                        page_id |-> plan[i].target_page_id])
          /\ remote[plan[i].target_page_id.n].version >= 3

====
